---- MODULE Spec2Model ----
(***************************************************************************)
(* Keystore coordination layer of pcocc (lib/pcocc/Batch.py): the          *)
(* credential-renewal wrapper, the atomic update loop and the watch/wait   *)
(* primitives of SlurmManager, run by several OS processes against one     *)
(* etcd (v2 API) keystore.  The keystore is the environment: its index,    *)
(* its bounded event history and its conditional writes follow the etcd    *)
(* v2 wire contract the code is written against.                           *)
(***************************************************************************)
EXTENDS Integers, Sequences, FiniteSets, TLC

\* ---------------------------------------------------------------- bounds
NProcs == 2            \* callers racing on one key
MaxInit == 1           \* largest initial value of the counter key
MaxDeletes == 1        \* deletions of the key by a foreign process
MaxAuthFaults == 1     \* authentication-expired answers the store may give
HistCap == 2           \* events the store's history retains (etcd: 1000)
MaxOther == 3          \* writes to unrelated keys
MaxTime == 33          \* seconds the wrapper scenario runs
MaxVal == 1            \* longest value written (a value is its length)
MaxWrites == 2         \* writes of the key by another process
MaxKids == 2           \* children the directory may hold
MaxIdChanges == 1      \* cluster-identity changes

\* ------------------------------------------------------ program constants
AuthErrorCode == 110
AuthStatus == 401
CredCooldown == 15
WaitChildTimeout == 30

Procs == 1..NProcs

VARIABLES
    now,              \* datetime.datetime.now(), in seconds
    etcdIndex,        \* the store's X-Etcd-Index
    kv,               \* the key: [exists, val, mod]
    kv0,              \* the key as the scenario found it
    kids,             \* the children of the directory
    history,          \* the store's event history, oldest first
    env,              \* what the other processes and the store did and may do
    op,               \* per process: the operation it runs and its arguments
    pc,               \* per process: position in its call
    tf,               \* per process: the transform passed to atom_update_key
    loc,              \* per process: locals of the running call
    outcome,          \* per process: how the call ended
    last_cred_renew,  \* per process: self._last_cred_renew
    credReq,          \* per process: calls of _get_credential
    clientPw,         \* per process: self._keyval_client.password
    stat              \* per process: what the call did so far

vars == <<now, etcdIndex, kv, kv0, kids, history, env, op, pc, tf, loc,
          outcome, last_cred_renew, credReq, clientPw, stat>>

\* ----------------------------------------------------------- store errors
\* An etcd.EtcdException as the code sees it: its class and its payload
\* (hasGet: the payload is a dict; a missing field reads as 0).
Err(cls, hasGet, errorCode, error_code, status) ==
    [cls |-> cls, hasGet |-> hasGet, errorCode |-> errorCode,
     error_code |-> error_code, status |-> status]

NoErr == Err("", FALSE, 0, 0, 0)
EtcdKeyNotFound == Err("EtcdKeyNotFound", TRUE, 100, 0, 0)
EtcdCompareFailed == Err("EtcdCompareFailed", TRUE, 101, 0, 0)
EtcdAlreadyExist == Err("EtcdAlreadyExist", TRUE, 105, 0, 0)

\* The answers by which the store says the credential has expired.
AuthExpiredErrors ==
    { Err("EtcdException", TRUE, AuthErrorCode, 0, 0),
      Err("EtcdException", TRUE, 0, AuthErrorCode, 0),
      Err("EtcdException", TRUE, 0, 0, AuthStatus) }

\* ------------------------------------------------- _try_renew_credential
\* A test that takes any 110 or 401 in the payload for an expired credential.
IsAuthExpiredAnyField(e) ==
    /\ e.hasGet
    /\ {e.errorCode, e.error_code, e.status} \cap {AuthErrorCode, AuthStatus} # {}

IsAuthExpired(e) ==
    /\ e.hasGet
    /\ \/ e.errorCode = AuthErrorCode
       \/ e.error_code = AuthErrorCode
       \/ e.status = AuthStatus

\* A renewal that forgets the cooldown.
TryRenewNoCooldown(e, t, last) ==
    IF IsAuthExpired(e) THEN "renew" ELSE "reraise"

\* A renewal that is let through at the very end of the cooldown.
TryRenewAtCooldown(e, t, last) ==
    IF IsAuthExpired(e)
    THEN IF t - last >= CredCooldown THEN "renew" ELSE "KeyCredentialError"
    ELSE "reraise"

\* What _try_renew_credential(e) does at time t when the last renewal was at
\* time last: "renew" (returns, the wrapper loops), or raises.
TryRenew(e, t, last) ==
    IF IsAuthExpired(e)
    THEN IF t - last > CredCooldown THEN "renew" ELSE "KeyCredentialError"
    ELSE "reraise"

\* --------------------------------------------------- calls and environment
\* The operation a process runs: its name and the arguments that matter
\* (timeout 0: wait for ever, as etcd takes it).
Op0 == [name |-> "idle", key_type |-> "cluster", key |-> "k",
        blocking |-> FALSE, timeout |-> 0, count |-> 0,
        batchuser |-> "bob", batchid |-> 7]

\* deletes, writes, other: mutations other processes made so far, to the
\* key or directory and elsewhere in the store; authFaults, idChanges:
\* authentication-expired answers and cluster-identity changes to come.
Env0 == [deletes |-> 0, writes |-> 0, other |-> 0, authFaults |-> 0,
         idChanges |-> 0]

\* ------------------------------------------------------------ call results
\* How a call ended: the value returned, or the exception raised (err: the
\* store's exception when it is the one raised, path: the key path a
\* KeyTimeoutError names).
Pending ==
    [kind |-> "pending", cls |-> "", ret |-> 0, none |-> FALSE, index |-> 0,
     path |-> "", err |-> NoErr]
Return(v) == [Pending EXCEPT !.kind = "return", !.ret = v]
\* None, or the pair (None, index)
ReturnNone(i) == [Pending EXCEPT !.kind = "return", !.none = TRUE, !.index = i]
\* the pair (ret, index)
ReturnAt(v, i) == [Pending EXCEPT !.kind = "return", !.ret = v, !.index = i]
Raise(cls) == [Pending EXCEPT !.kind = "raise", !.cls = cls]
RaiseErr(e) == [Pending EXCEPT !.kind = "raise", !.cls = e.cls, !.err = e]
RaisePath(cls, path) ==
    [Pending EXCEPT !.kind = "raise", !.cls = cls, !.path = path]

Finished(p) == pc[p] = "done"
AllFinished == \A p \in Procs : Finished(p)

\* --------------------------------------------------------------- the store
\* The history keeps the last HistCap events; its first entry's index is the
\* StartIndex below which a watch is answered "index cleared".
Push(h, e) == IF Len(h) < HistCap THEN Append(h, e) ELSE Append(Tail(h), e)

Event(onPath, found, val) ==
    [idx |-> etcdIndex + 1, onPath |-> onPath, found |-> found, val |-> val]

\* A committed write of the key: the index moves by one, the key takes it as
\* its modifiedIndex, the event enters the history.
CommitSet(val) ==
    /\ etcdIndex' = etcdIndex + 1
    /\ kv' = [exists |-> TRUE, val |-> val, mod |-> etcdIndex + 1]
    /\ history' = Push(history, Event(TRUE, TRUE, val))
    /\ kids' = kids

CommitDelete ==
    /\ etcdIndex' = etcdIndex + 1
    /\ kv' = [exists |-> FALSE, val |-> kv.val, mod |-> 0]
    /\ history' = Push(history, Event(TRUE, FALSE, kv.val))
    /\ kids' = kids

StoreUnchanged == UNCHANGED <<etcdIndex, kv, kids, history>>

\* keyval_client.read(key_path), as read_key_index(realindex) returns it:
\* (None, e.payload['index']) when the key is absent.
ReadKeyIndex(realindex) ==
    IF ~kv.exists
    THEN [found |-> FALSE, value |-> kv.val, index |-> etcdIndex]
    ELSE [found |-> TRUE, value |-> kv.val,
          index |-> IF realindex THEN kv.mod
                    ELSE IF kv.mod > etcdIndex THEN kv.mod ELSE etcdIndex]

\* A compare-and-swap that looks at the presence of the key only.
WriteKeyIndexErrAnyIndex(index) ==
    IF ~kv.exists THEN EtcdKeyNotFound ELSE NoErr

\* keyval_client.write(key_path, value, prevIndex=index): the error it
\* raises, NoErr when the write is committed.
WriteKeyIndexErr(index) ==
    IF ~kv.exists THEN EtcdKeyNotFound
    ELSE IF kv.mod # index THEN EtcdCompareFailed
    ELSE NoErr

\* A store that answers every create-only write with already-exists.
WriteKeyNewErrAlways == EtcdAlreadyExist

\* keyval_client.write(key_path, value, prevExist=False)
WriteKeyNewErr == IF kv.exists THEN EtcdAlreadyExist ELSE NoErr

\* -------------------------------------------------------- atom_update_key
\* The transform handed to atom_update_key: func(value) -> (new_value, ret).
\* "Incr" counts (None counts as 0); "Probe" creates nothing for an absent
\* key and rewrites the value of an existing one.
Transform(f, found, value) ==
    IF f = "Incr"
    THEN IF found
         THEN [hasNew |-> TRUE, new_value |-> value + 1, ret |-> value + 1]
         ELSE [hasNew |-> TRUE, new_value |-> 1, ret |-> 1]
    ELSE IF found
         THEN [hasNew |-> TRUE, new_value |-> value, ret |-> value]
         ELSE [hasNew |-> FALSE, new_value |-> 0, ret |-> -1]

\* An except clause that leaves EtcdKeyNotFound out.
AtomCaughtNoNotFound == {"EtcdCompareFailed", "EtcdAlreadyExist"}

\* The exception classes the except clause of atom_update_key swallows.
AtomCaught == {"EtcdCompareFailed", "EtcdKeyNotFound", "EtcdAlreadyExist"}

\* An update that writes with write_key, whatever the index it read.
AtomWriteErrBlind(found, index) == NoErr

\* The conditional write atom_update_key picks: create-only for a key read
\* absent, compare-and-swap on the index read otherwise.
AtomWriteErr(found, index) ==
    IF found THEN WriteKeyIndexErr(index) ELSE WriteKeyNewErr

\* An update that writes a value although the transform returned None for
\* an absent key.
AtomSkipsWriteNever(found, hasNew) == FALSE

\* if value is None and new_value is None: return ret, with no write.
AtomSkipsWrite(found, hasNew) == ~found /\ ~hasNew

AtomLoc0 == [found |-> FALSE, value |-> 0, index |-> 0, hasNew |-> FALSE,
             new_value |-> 0, ret |-> 0]
Stat0 == [retries |-> 0, writes |-> 0, renewals |-> 0, attempts |-> 0,
          tries |-> 0, firstRenew |-> 0, watches |-> 0, signal |-> ""]

\* _retry_on_cred_expiry: the wrapped function of p raised the store's
\* exception e.  _try_renew_credential either returns, having stamped the
\* renewal and put a fresh credential on the client, and the loop calls the
\* function again; or it raises and the call of p ends.
WrapperHandles(p, e) ==
    LET r == TryRenew(e, now, last_cred_renew[p])
    IN IF r = "renew"
       THEN /\ last_cred_renew' = [last_cred_renew EXCEPT ![p] = now]
            /\ credReq' = [credReq EXCEPT ![p] = @ + 1]
            /\ clientPw' = [clientPw EXCEPT ![p] = credReq[p] + 1]
            /\ stat' = [stat EXCEPT ![p].renewals = @ + 1,
                                    ![p].tries = @ + 1,
                                    ![p].firstRenew =
                                        IF stat[p].renewals = 0 THEN now ELSE @]
            /\ UNCHANGED <<pc, outcome>>
       ELSE /\ pc' = [pc EXCEPT ![p] = "done"]
            /\ outcome' = [outcome EXCEPT ![p] =
                   IF r = "reraise" THEN RaiseErr(e) ELSE Raise(r)]
            /\ stat' = [stat EXCEPT ![p].tries = @ + 1]
            /\ UNCHANGED <<last_cred_renew, credReq, clientPw>>

\* value, index = self.read_key_index(key_type, key, realindex=True);
\* new_value, ret = func(value); return ret when both are None.
AtomRead(p) ==
    /\ pc[p] = "au_read"
    /\ LET r == ReadKeyIndex(TRUE)
           t == Transform(tf[p], r.found, r.value)
       IN /\ loc' = [loc EXCEPT ![p] =
                        [found |-> r.found, value |-> r.value, index |-> r.index,
                         hasNew |-> t.hasNew, new_value |-> t.new_value,
                         ret |-> t.ret]]
          /\ stat' = [stat EXCEPT ![p].writes = 0,
                                  ![p].attempts = @ + 1]
          /\ IF AtomSkipsWrite(r.found, t.hasNew)
             THEN /\ pc' = [pc EXCEPT ![p] = "done"]
                  /\ outcome' = [outcome EXCEPT ![p] = Return(t.ret)]
             ELSE /\ pc' = [pc EXCEPT ![p] = "au_write"]
                  /\ UNCHANGED outcome
    /\ StoreUnchanged
    /\ UNCHANGED <<now, kv0, env, op, tf,
                   last_cred_renew, credReq, clientPw>>

\* write_key_new when the key was read absent, write_key_index otherwise;
\* a race error restarts the cycle, the rest reaches the caller.
AtomWrite(p) ==
    /\ pc[p] = "au_write"
    /\ LET e == AtomWriteErr(loc[p].found, loc[p].index)
       IN /\ stat' = [stat EXCEPT ![p].writes = @ + 1,
                                  ![p].retries =
                                      IF e # NoErr /\ e.cls \in AtomCaught
                                      THEN @ + 1 ELSE @]
          /\ IF e = NoErr
             THEN /\ CommitSet(loc[p].new_value)
                  /\ pc' = [pc EXCEPT ![p] = "done"]
                  /\ outcome' = [outcome EXCEPT ![p] = Return(loc[p].ret)]
             ELSE /\ StoreUnchanged
                  /\ IF TryRenew(e, now, last_cred_renew[p]) = "reraise"
                        /\ e.cls \in AtomCaught
                     THEN /\ pc' = [pc EXCEPT ![p] = "au_read"]
                          /\ UNCHANGED outcome
                     ELSE /\ pc' = [pc EXCEPT ![p] = "done"]
                          /\ outcome' = [outcome EXCEPT ![p] = RaiseErr(e)]
    /\ UNCHANGED <<now, kv0, env, op, tf,
                   loc, last_cred_renew, credReq, clientPw>>

\* A store call of p is answered "authentication expired": the wrapper of
\* the called function renews and calls it again, or raises
\* KeyCredentialError, which no handler on the way up catches.
StoreCallPcs == {"au_read", "au_write"}

AuthExpired(p) ==
    /\ pc[p] \in StoreCallPcs
    /\ env.authFaults > 0
    /\ env' = [env EXCEPT !.authFaults = @ - 1]
    /\ \E e \in AuthExpiredErrors : WrapperHandles(p, e)
    /\ StoreUnchanged
    /\ UNCHANGED <<now, kv0, op, tf, loc>>

\* A process outside the callers deletes the key.
EnvDelete ==
    /\ kv.exists
    /\ env.deletes < MaxDeletes
    /\ env' = [env EXCEPT !.deletes = @ + 1]
    /\ CommitDelete
    /\ UNCHANGED <<now, kv0, op, pc, tf, loc, outcome, last_cred_renew,
                   credReq, clientPw, stat>>

\* Callers of atom_update_key on one key.  The key is absent or holds a
\* count; the connection was made at time 0 and the calls start right away
\* or once the renewal cooldown has passed.
InitAtom ==
    /\ now \in {0, CredCooldown + 1}
    /\ \E found \in BOOLEAN : \E v \in 0..MaxInit :
         /\ kv = [exists |-> found, val |-> IF found THEN v ELSE 0,
                  mod |-> IF found THEN 1 ELSE 0]
         /\ kv0 = kv
    /\ etcdIndex = 1
    /\ kids = {}
    /\ history = <<>>
    /\ \E a \in 0..MaxAuthFaults : env = [Env0 EXCEPT !.authFaults = a]
    /\ op = [p \in Procs |-> [Op0 EXCEPT !.name = "atom_update_key"]]
    /\ pc = [p \in Procs |-> "au_read"]
    /\ tf \in [Procs -> {"Incr", "Probe"}]
    /\ loc = [p \in Procs |-> AtomLoc0]
    /\ outcome = [p \in Procs |-> Pending]
    /\ last_cred_renew = [p \in Procs |-> 0]
    /\ credReq = [p \in Procs |-> 1]
    /\ clientPw = [p \in Procs |-> 1]
    /\ stat = [p \in Procs |-> Stat0]

NextAtom ==
    \/ \E p \in Procs : AtomRead(p)
    \/ \E p \in Procs : AtomWrite(p)
    \/ \E p \in Procs : AuthExpired(p)
    \/ EnvDelete

SpecAtom == InitAtom /\ [][NextAtom]_vars

\* ------------------------------------------- the wrapper, one call at a time
\* The exceptions a wrapped call may meet that say nothing of the
\* credential: a missing key, a cleared watch index (errorCode 401, which is
\* not status 401), a server error, and two that carry no payload.
OtherStoreErrors ==
    { EtcdKeyNotFound,
      Err("EtcdEventIndexCleared", TRUE, AuthStatus, 0, 0),
      Err("EtcdException", TRUE, 0, 0, 500),
      Err("EtcdConnectionFailed", FALSE, 0, 0, 0),
      Err("EtcdClusterIdChanged", FALSE, 0, 0, 0) }

StoreErrors == AuthExpiredErrors \cup OtherStoreErrors

CredProc == 1
CredLoc0 == [e |-> NoErr]

\* return func(*args, **kwargs): the wrapped function returns.
WrappedReturn(p) ==
    /\ pc[p] = "w_call"
    /\ pc' = [pc EXCEPT ![p] = "done"]
    /\ outcome' = [outcome EXCEPT ![p] = Return(0)]
    /\ stat' = [stat EXCEPT ![p].tries = @ + 1]
    /\ StoreUnchanged
    /\ UNCHANGED <<now, kv0, env, op, tf,
                   loc, last_cred_renew, credReq, clientPw>>

\* except etcd.EtcdException as e: args[0]._try_renew_credential(e)
WrappedFail(p) ==
    /\ pc[p] = "w_call"
    /\ \E e \in StoreErrors :
         /\ loc' = [loc EXCEPT ![p] = [e |-> e]]
         /\ WrapperHandles(p, e)
    /\ StoreUnchanged
    /\ UNCHANGED <<now, kv0, env, op, tf>>

\* The caller makes its next wrapped call on the same connection.
WrappedAgain(p) ==
    /\ pc[p] = "done"
    /\ op[p].name = "wrapped_call"
    /\ pc' = [pc EXCEPT ![p] = "w_call"]
    /\ outcome' = [outcome EXCEPT ![p] = Pending]
    /\ loc' = [loc EXCEPT ![p] = CredLoc0]
    /\ stat' = [stat EXCEPT ![p] = Stat0]
    /\ StoreUnchanged
    /\ UNCHANGED <<now, kv0, env, op, tf,
                   last_cred_renew, credReq, clientPw>>

\* A second passes, while a call runs or between calls.
Tick ==
    /\ now < MaxTime
    /\ now' = now + 1
    /\ StoreUnchanged
    /\ UNCHANGED <<kv0, env, op, pc, tf, loc, outcome, last_cred_renew,
                   credReq, clientPw, stat>>

\* One process, its connection made at time 0 (keyval_client stamps
\* _last_cred_renew then), making wrapped calls as time passes.
InitCred ==
    /\ now = 0
    /\ etcdIndex = 1
    /\ kv = [exists |-> FALSE, val |-> 0, mod |-> 0]
    /\ kv0 = kv
    /\ kids = {}
    /\ history = <<>>
    /\ env = Env0
    /\ op = [p \in Procs |-> IF p = CredProc
                              THEN [Op0 EXCEPT !.name = "wrapped_call"]
                              ELSE Op0]
    /\ pc = [p \in Procs |-> IF p = CredProc THEN "w_call" ELSE "done"]
    /\ tf = [p \in Procs |-> "Incr"]
    /\ loc = [p \in Procs |-> CredLoc0]
    /\ outcome = [p \in Procs |-> Pending]
    /\ last_cred_renew = [p \in Procs |-> 0]
    /\ credReq = [p \in Procs |-> 1]
    /\ clientPw = [p \in Procs |-> 1]
    /\ stat = [p \in Procs |-> Stat0]

NextCred ==
    \/ WrappedReturn(CredProc)
    \/ WrappedFail(CredProc)
    \/ WrappedAgain(CredProc)
    \/ Tick

SpecCred == InitCred /\ [][NextCred]_vars

\* ------------------------------------------------------------ get_key_path
\* self._in_a_job
InAJob(batchid) == batchid # 0

\* A job check that lets every caller through.
OnlyInAJobNever(batchid) == ""

\* self._only_in_a_job(): the exception it raises, "" for none.
OnlyInAJob(batchid) == IF ~InAJob(batchid) THEN "NoJobError" ELSE ""

\* A path of the cluster/user scope with the job before the user.
GetKeyPathJobFirst(key_type, key, batchuser, batchid) ==
    IF key_type = "global"
    THEN [err |-> "", path |-> "/pcocc/global/" \o key]
    ELSE IF key_type = "global/user"
    THEN [err |-> "",
          path |-> "/pcocc/global/users/" \o batchuser \o "/" \o key]
    ELSE IF key_type = "cluster"
    THEN [err |-> OnlyInAJob(batchid),
          path |-> "/pcocc/cluster/" \o ToString(batchid) \o "/" \o key]
    ELSE IF key_type = "cluster/user"
    THEN [err |-> OnlyInAJob(batchid),
          path |-> "/pcocc/cluster/users/" \o ToString(batchid) \o "/"
                   \o batchuser \o "/" \o key]
    ELSE [err |-> "KeyError", path |-> ""]

\* The path of a key: err is the exception get_key_path raises, "" for none.
GetKeyPath(key_type, key, batchuser, batchid) ==
    IF key_type = "global"
    THEN [err |-> "", path |-> "/pcocc/global/" \o key]
    ELSE IF key_type = "global/user"
    THEN [err |-> "",
          path |-> "/pcocc/global/users/" \o batchuser \o "/" \o key]
    ELSE IF key_type = "cluster"
    THEN IF OnlyInAJob(batchid) # ""
         THEN [err |-> OnlyInAJob(batchid), path |-> ""]
         ELSE [err |-> "",
               path |-> "/pcocc/cluster/" \o ToString(batchid) \o "/" \o key]
    ELSE IF key_type = "cluster/user"
    THEN IF OnlyInAJob(batchid) # ""
         THEN [err |-> OnlyInAJob(batchid), path |-> ""]
         ELSE [err |-> "",
               path |-> "/pcocc/cluster/users/" \o batchuser \o "/"
                        \o ToString(batchid) \o "/" \o key]
    ELSE [err |-> "KeyError", path |-> ""]

KeyPathOf(p) ==
    GetKeyPath(op[p].key_type, op[p].key, op[p].batchuser, op[p].batchid).path

\* ------------------------------------------- read_key and the wait calls
\* A stored value is modelled by its length: "if val" holds of a string
\* that is not empty.
Truthy(v) == v > 0

NoEvent == [idx |-> 0, onPath |-> FALSE, found |-> FALSE, val |-> 0]
WatchLoc0 == [index |-> 0, hasEv |-> FALSE, ev |-> NoEvent]

RdProc == 1
OnKey == op[RdProc].name \in {"read_key", "wait_key_index"}
OnDir == op[RdProc].name = "wait_child_count"

\* The timeout of the watch p issues: its caller's, or the 30 seconds
\* wait_child_count passes.
WatchTimeoutOf(p) ==
    IF op[p].name = "wait_child_count" THEN WaitChildTimeout
    ELSE op[p].timeout

\* A KeyTimeoutError that names the key, not its path.
TimeoutNamesKey(key_path, key) == key

\* raise KeyTimeoutError(key_path)
TimeoutNames(key_path, key) == key_path

\* How wait_key_index ends when its watch ends with the given signal:
\* an event (ret, max(ret.modifiedIndex, ret.etcd_index)), a timeout, the
\* index-cleared error, whose payload carries the store's index, or the
\* cluster-identity error, whose handler reads an e that no clause bound.
WaitKeyIndexResult(p, signal, ev) ==
    IF signal = "event"
    THEN [ReturnAt(ev.val, IF ev.idx > etcdIndex THEN ev.idx ELSE etcdIndex)
            EXCEPT !.none = ~ev.found]
    ELSE IF signal = "timeout"
    THEN RaisePath("KeyTimeoutError", TimeoutNames(KeyPathOf(p), op[p].key))
    ELSE IF signal = "cleared"
    THEN ReturnNone(etcdIndex)
    ELSE Raise("UnboundLocalError")

\* wait_key_index has ended with res: what its caller does next.  read_key
\* loops while it got None and returns val.value otherwise; wait_child_count
\* drops the result and reads the directory again; an exception passes
\* through both, and through the wrappers, which catch EtcdException only.
AfterWait(p, signal, ev) ==
    LET res == WaitKeyIndexResult(p, signal, ev)
    IN /\ stat' = [stat EXCEPT
                     ![p].signal = signal,
                     ![p].retries = IF op[p].name = "read_key"
                                       /\ signal = "cleared"
                                    THEN @ + 1 ELSE @]
       /\ IF res.kind = "raise" \/ op[p].name = "wait_key_index"
          THEN /\ pc' = [pc EXCEPT ![p] = "done"]
               /\ outcome' = [outcome EXCEPT ![p] = res]
               /\ loc' = [loc EXCEPT ![p].hasEv = FALSE]
          ELSE IF op[p].name = "wait_child_count"
          THEN /\ pc' = [pc EXCEPT ![p] = "wc_read"]
               /\ loc' = [loc EXCEPT ![p].hasEv = FALSE]
               /\ UNCHANGED outcome
          ELSE IF signal = "cleared"
          THEN /\ pc' = [pc EXCEPT ![p] = "wk_arm"]
               /\ loc' = [loc EXCEPT ![p].index = res.index,
                                     ![p].hasEv = FALSE]
               /\ UNCHANGED outcome
          ELSE /\ pc' = [pc EXCEPT ![p] = "done"]
               /\ loc' = [loc EXCEPT ![p].hasEv = FALSE]
               /\ outcome' = [outcome EXCEPT ![p] =
                      IF res.none THEN ReturnNone(0) ELSE Return(res.ret)]

\* val, index = self.read_key_index(key_type, key); return val when it is
\* set or the read is not blocking, wait otherwise.
ReadKey(p) ==
    /\ pc[p] = "rk_read"
    /\ LET r == ReadKeyIndex(FALSE)
       IN IF (r.found /\ Truthy(r.value)) \/ ~op[p].blocking
          THEN /\ pc' = [pc EXCEPT ![p] = "done"]
               /\ outcome' = [outcome EXCEPT ![p] =
                      IF r.found THEN Return(r.value) ELSE ReturnNone(0)]
               /\ UNCHANGED loc
          ELSE /\ pc' = [pc EXCEPT ![p] = "wk_arm"]
               /\ loc' = [loc EXCEPT ![p].index = r.index]
               /\ UNCHANGED outcome
    /\ StoreUnchanged
    /\ UNCHANGED <<now, kv0, env, op, tf, last_cred_renew, credReq, clientPw,
                   stat>>

\* The events of the history a watch from index w is answered with.
Hits(w) == {i \in 1..Len(history) : history[i].onPath /\ history[i].idx >= w}
Least(S) == CHOOSE i \in S : \A j \in S : i <= j

\* keyval_client.watch(key_path, recursive=True, index=index + 1,
\* timeout): the store answers at once when the index has left its history
\* or an event from that index on is in it, and holds the watch otherwise.
WatchArm(p) ==
    /\ pc[p] = "wk_arm"
    /\ LET w == loc[p].index + 1
       IN IF history # <<>> /\ w < history[1].idx
          THEN AfterWait(p, "cleared", NoEvent)
          ELSE IF Hits(w) # {}
          THEN AfterWait(p, "event", history[Least(Hits(w))])
          ELSE /\ pc' = [pc EXCEPT ![p] = "wk_wait"]
               /\ stat' = [stat EXCEPT ![p].watches = @ + 1]
               /\ UNCHANGED <<loc, outcome>>
    /\ StoreUnchanged
    /\ UNCHANGED <<now, kv0, env, op, tf, last_cred_renew, credReq, clientPw>>

\* The held watch is answered with the event the store passed to it.
WatchFire(p) ==
    /\ pc[p] = "wk_wait"
    /\ loc[p].hasEv
    /\ AfterWait(p, "event", loc[p].ev)
    /\ StoreUnchanged
    /\ UNCHANGED <<now, kv0, env, op, tf, last_cred_renew, credReq, clientPw>>

\* except etcd.EtcdWatchTimedOut: no event came within the timeout.
WatchTimeout(p) ==
    /\ pc[p] = "wk_wait"
    /\ ~loc[p].hasEv
    /\ WatchTimeoutOf(p) > 0
    /\ AfterWait(p, "timeout", NoEvent)
    /\ StoreUnchanged
    /\ UNCHANGED <<now, kv0, env, op, tf, last_cred_renew, credReq, clientPw>>

\* except etcd.EtcdClusterIdChanged: the answer bears another cluster id.
WatchIdChanged(p) ==
    /\ pc[p] = "wk_wait"
    /\ env.idChanges > 0
    /\ env' = [env EXCEPT !.idChanges = @ - 1]
    /\ AfterWait(p, "idchanged", NoEvent)
    /\ StoreUnchanged
    /\ UNCHANGED <<now, kv0, op, tf, last_cred_renew, credReq, clientPw>>

\* ret.children, as the etcd client library yields them: the nodes below
\* the directory, or, for a directory with no node below it, the directory
\* itself (node 0).
Children(nodes) == IF nodes = {} THEN {0} ELSE nodes

\* ret, last_index = self.read_dir_index(key_type, key): return ret when
\* len([child for child in ret.children]) is count (0 when ret is None),
\* wait from last_index otherwise.  What is returned is the listing, here
\* by the number of nodes below the directory.
WaitChildRead(p) ==
    /\ pc[p] = "wc_read"
    /\ LET num_complete ==
              IF kv.exists THEN Cardinality(Children(kids)) ELSE 0
       IN IF num_complete = op[p].count
          THEN /\ pc' = [pc EXCEPT ![p] = "done"]
               /\ outcome' = [outcome EXCEPT ![p] =
                      IF kv.exists THEN Return(Cardinality(kids))
                      ELSE ReturnNone(0)]
               /\ UNCHANGED loc
          ELSE /\ pc' = [pc EXCEPT ![p] = "wk_arm"]
               /\ loc' = [loc EXCEPT ![p].index = etcdIndex]
               /\ UNCHANGED outcome
    /\ StoreUnchanged
    /\ UNCHANGED <<now, kv0, env, op, tf, last_cred_renew, credReq, clientPw,
                   stat>>

\* The store hands a committed event to the watches it holds on the path.
Deliver(ev) ==
    [p \in Procs |->
        IF pc[p] = "wk_wait" /\ ~loc[p].hasEv /\ ev.onPath
           /\ ev.idx >= loc[p].index + 1
        THEN [loc[p] EXCEPT !.hasEv = TRUE, !.ev = ev]
        ELSE loc[p]]

\* Other processes act while the call of RdProc is under way.
EnvFrame ==
    /\ pc[RdProc] # "done"
    /\ UNCHANGED <<now, kv0, op, pc, tf, outcome, last_cred_renew, credReq,
                   clientPw, stat>>

\* Another process writes the key.
EnvWriteKey ==
    /\ OnKey
    /\ env.writes < MaxWrites
    /\ \E v \in 0..MaxVal :
         /\ CommitSet(v)
         /\ loc' = Deliver(Event(TRUE, TRUE, v))
    /\ env' = [env EXCEPT !.writes = @ + 1]
    /\ EnvFrame

\* Another process writes a key elsewhere in the store.
EnvOtherWrite ==
    /\ env.other < MaxOther
    /\ etcdIndex' = etcdIndex + 1
    /\ history' = Push(history, Event(FALSE, TRUE, 0))
    /\ env' = [env EXCEPT !.other = @ + 1]
    /\ UNCHANGED <<kv, kids, loc>>
    /\ EnvFrame

\* Another process writes a new key below the directory, which makes the
\* directory if it is not there.  The children are named in the order they
\* come: the calls count them and never look at their names.
EnvAddChild ==
    /\ OnDir
    /\ env.writes < MaxWrites
    /\ \E c \in {Cardinality(kids) + 1} \cap (1..MaxKids) :
         /\ kids' = kids \cup {c}
         /\ history' = Push(history, Event(TRUE, TRUE, c))
         /\ loc' = Deliver(Event(TRUE, TRUE, c))
    /\ kv' = IF kv.exists THEN kv
             ELSE [exists |-> TRUE, val |-> 0, mod |-> etcdIndex + 1]
    /\ etcdIndex' = etcdIndex + 1
    /\ env' = [env EXCEPT !.writes = @ + 1]
    /\ EnvFrame

\* Another process deletes a key below the directory.
EnvDelChild ==
    /\ OnDir
    /\ env.deletes < MaxDeletes
    /\ \E c \in {Cardinality(kids)} \cap kids :
         /\ kids' = kids \ {c}
         /\ history' = Push(history, Event(TRUE, FALSE, c))
         /\ loc' = Deliver(Event(TRUE, FALSE, c))
    /\ etcdIndex' = etcdIndex + 1
    /\ env' = [env EXCEPT !.deletes = @ + 1]
    /\ UNCHANGED kv
    /\ EnvFrame

\* One process reads a key, waits for it or waits for a directory to fill,
\* while others write.  The key is absent or holds a value; the directory is
\* absent or holds some children.
InitWatch ==
    /\ now = 0
    /\ etcdIndex = 1
    /\ history = <<>>
    /\ env = [Env0 EXCEPT !.idChanges = MaxIdChanges]
    /\ \E name \in {"read_key", "wait_key_index", "wait_child_count"} :
       \E blocking \in BOOLEAN : \E timeout \in {0, WaitChildTimeout} :
       \E count \in 0..MaxKids : \E key_type \in {"global", "cluster"} :
         /\ name # "read_key" => blocking
         /\ name = "wait_child_count" => timeout = 0 /\ key_type = "cluster"
         /\ name # "wait_child_count" => count = 0
         /\ op = [p \in Procs |->
                    IF p = RdProc
                    THEN [Op0 EXCEPT !.name = name, !.blocking = blocking,
                                     !.timeout = timeout, !.count = count,
                                     !.key_type = key_type]
                    ELSE Op0]
         /\ pc = [p \in Procs |->
                    IF p # RdProc THEN "done"
                    ELSE IF name = "read_key" THEN "rk_read"
                    ELSE IF name = "wait_key_index" THEN "wk_arm"
                    ELSE "wc_read"]
         /\ IF name = "wait_child_count"
            THEN /\ \E n \in 0..MaxKids : kids = 1..n
                 /\ \E made \in BOOLEAN :
                      kv = [exists |-> made \/ kids # {}, val |-> 0,
                            mod |-> IF made \/ kids # {} THEN 1 ELSE 0]
            ELSE /\ kids = {}
                 /\ \E found \in BOOLEAN : \E v \in 0..MaxVal :
                      kv = [exists |-> found, val |-> IF found THEN v ELSE 0,
                            mod |-> IF found THEN 1 ELSE 0]
    /\ kv0 = kv
    /\ tf = [p \in Procs |-> "Incr"]
    /\ loc = [p \in Procs |-> [WatchLoc0 EXCEPT !.index = etcdIndex]]
    /\ outcome = [p \in Procs |-> Pending]
    /\ last_cred_renew = [p \in Procs |-> 0]
    /\ credReq = [p \in Procs |-> 1]
    /\ clientPw = [p \in Procs |-> 1]
    /\ stat = [p \in Procs |-> Stat0]

NextWatch ==
    \/ ReadKey(RdProc)
    \/ WatchArm(RdProc)
    \/ WatchFire(RdProc)
    \/ WatchTimeout(RdProc)
    \/ WatchIdChanged(RdProc)
    \/ WaitChildRead(RdProc)
    \/ EnvWriteKey
    \/ EnvOtherWrite
    \/ EnvAddChild
    \/ EnvDelChild

SpecWatch == InitWatch /\ [][NextWatch]_vars

\* ------------------------------------------------------------ claims: atom
NoRaise == \A p \in Procs : outcome[p].kind # "raise"
Incrementers == {p \in Procs : tf[p] = "Incr"}
Base == IF kv0.exists THEN kv0.val ELSE 0

\* C1: callers racing on one key with an increment transform, and nobody
\* else writing it, all return, none after more than NProcs attempts, and
\* the stored value is then the initial value (0 for an absent key) plus one
\* per incrementing caller: no increment is lost, none is applied twice.
C1_IncrementsConverge ==
    (env.deletes = 0 /\ NoRaise) =>
        /\ \A p \in Procs : stat[p].retries <= NProcs - 1
        /\ AllFinished =>
              /\ \A p \in Procs : outcome[p].kind = "return"
              /\ Incrementers # {} =>
                    /\ kv.exists
                    /\ kv.val = Base + Cardinality(Incrementers)

C1_Witness ==
    /\ AllFinished /\ NoRaise /\ env.deletes = 0
    /\ Incrementers = Procs
    /\ \E p \in Procs : stat[p].retries > 0
    /\ kv.val = Base + NProcs

\* C6: atom_update_key ends by returning the transform's result or by
\* raising an error that is no store race: a compare-and-swap mismatch, an
\* already-exists and a key-not-found restart the cycle and never reach the
\* caller.
C6_RacesNeverSurface ==
    \A p \in Procs :
        /\ Finished(p) =>
              \/ outcome[p].kind = "return" /\ outcome[p].ret = loc[p].ret
              \/ /\ outcome[p].kind = "raise"
                 /\ outcome[p].cls \notin
                      {"EtcdCompareFailed", "EtcdKeyNotFound", "EtcdAlreadyExist"}
        /\ ~Finished(p) => outcome[p] = Pending

C6_Witness ==
    /\ env.deletes > 0
    /\ \E p \in Procs :
         /\ Finished(p) /\ outcome[p].kind = "return"
         /\ stat[p].retries >= 2

\* C7: a call whose read found no key and whose transform returned
\* (None, result) ends at once with result, having sent no write: the store
\* is as the read found it.
C7_NoWriteOnNone ==
    [][\A p \in Procs :
          (pc[p] = "au_read" /\ stat'[p].attempts # stat[p].attempts
             /\ ~kv.exists /\ ~Transform(tf[p], FALSE, kv.val).hasNew)
          => /\ pc'[p] = "done"
             /\ outcome'[p] = Return(Transform(tf[p], FALSE, kv.val).ret)
             /\ stat'[p].writes = 0
             /\ kv' = kv /\ etcdIndex' = etcdIndex /\ history' = history]_vars

C7_Witness ==
    \E p \in Procs :
        /\ tf[p] = "Probe" /\ Finished(p) /\ outcome[p] = Return(-1)
        /\ ~loc[p].found /\ stat[p].writes = 0 /\ ~kv.exists

\* --------------------------------------------------------- claims: wrapper
\* The wrapped function of p has just raised the store's exception e.
FailedWith(p, e) ==
    /\ pc[p] = "w_call"
    /\ stat'[p].tries = stat[p].tries + 1
    /\ outcome'[p].kind # "return"
    /\ loc'[p].e = e

\* C4: an authentication-expired answer leads to a renewal only when more
\* than 15 seconds have passed since the last one: then a credential is
\* requested and put on the client, the timestamp is reset and the function
\* is called again; within the cooldown the call ends with
\* KeyCredentialError, no credential is requested and the timestamp stays.
C4_CooldownGatesRenewal ==
    [][\A p \in Procs : \A e \in AuthExpiredErrors :
          FailedWith(p, e) =>
            IF now - last_cred_renew[p] > CredCooldown
            THEN /\ last_cred_renew'[p] = now
                 /\ credReq'[p] = credReq[p] + 1
                 /\ clientPw'[p] = credReq'[p]
                 /\ pc'[p] = "w_call"
                 /\ outcome'[p] = Pending
            ELSE /\ outcome'[p] = Raise("KeyCredentialError")
                 /\ pc'[p] = "done"
                 /\ credReq'[p] = credReq[p]
                 /\ clientPw'[p] = clientPw[p]
                 /\ last_cred_renew'[p] = last_cred_renew[p]]_vars

C4_Witness ==
    /\ stat[CredProc].renewals = 1
    /\ outcome[CredProc] = Raise("KeyCredentialError")
    /\ now - last_cred_renew[CredProc] = CredCooldown

C10_OtherErrorsPropagate ==
    [][\A p \in Procs : \A e \in OtherStoreErrors :
          FailedWith(p, e) =>
            /\ outcome'[p] = RaiseErr(e)
            /\ pc'[p] = "done"
            /\ credReq'[p] = credReq[p]
            /\ clientPw'[p] = clientPw[p]
            /\ last_cred_renew'[p] = last_cred_renew[p]]_vars

C10_Witness ==
    /\ now > CredCooldown
    /\ Finished(CredProc)
    /\ outcome[CredProc].kind = "raise"
    /\ outcome[CredProc].err.errorCode = AuthStatus
    /\ stat[CredProc].renewals = 0
    /\ credReq[CredProc] = 1

\* ----------------------------------------------------------- claims: watch
\* The key has not been written since the call began, where it was absent.
NeverWritten == ~kv0.exists /\ env.writes = 0 /\ ~kv.exists

BlockingRead ==
    /\ op[RdProc].name = "read_key"
    /\ op[RdProc].blocking

\* C2: a blocking read_key that starts while the key is absent does not end
\* with KeyTimeoutError once a concurrent writer has set the key to a value,
\* whatever the interleaving and also when the store answers a watch with
\* the index-cleared signal.  A timeout in the model means that no event was
\* there for the watch however long it waits.
C2_BlockingReadSeesWrite ==
    (/\ BlockingRead
     /\ ~kv0.exists
     /\ Finished(RdProc)
     /\ outcome[RdProc].cls = "KeyTimeoutError")
    => ~(kv.exists /\ Truthy(kv.val))

\* C3: wait_child_count never ends with the timeout of one of its watches:
\* it reads the directory again and waits again.
C3_WaitChildCountNoTimeoutError ==
    op[RdProc].name = "wait_child_count"
    => outcome[RdProc].cls # "KeyTimeoutError"

\* C8: a wait_key_index whose watch ended with the index-cleared signal or
\* with the cluster-identity-changed signal returns (None, the store's
\* index) and raises nothing.
C8_SignalsReturnNoneIndex ==
    (/\ op[RdProc].name = "wait_key_index"
     /\ Finished(RdProc)
     /\ stat[RdProc].signal \in {"cleared", "idchanged"})
    => /\ outcome[RdProc].kind = "return"
       /\ outcome[RdProc].none
       /\ outcome[RdProc].index = etcdIndex

\* The path of the key "k" of Op0 in the two scopes the calls are made in.
C9_ResolvedPath ==
    IF op[RdProc].key_type = "global" THEN "/pcocc/global/k"
    ELSE "/pcocc/cluster/7/k"

C9_Case ==
    /\ BlockingRead \/ op[RdProc].name = "wait_key_index"
    /\ op[RdProc].timeout > 0
    /\ NeverWritten
    /\ Finished(RdProc)

\* C9 as stated: a blocking read_key or wait_key_index with a finite timeout
\* on a key that is never written ends with KeyTimeoutError carrying the
\* resolved path of the key.  The calls that met the
\* cluster-identity-changed signal are left out here, so that what refutes
\* the statement is a call the handlers treat as they are meant to.
C9_AlwaysTimeoutError ==
    (C9_Case /\ stat[RdProc].signal # "idchanged")
    => /\ outcome[RdProc].kind = "raise"
       /\ outcome[RdProc].cls = "KeyTimeoutError"
       /\ outcome[RdProc].path = C9_ResolvedPath

\* C9: a blocking read_key or wait_key_index with a finite timeout on a key
\* that is never written returns no value, and it ends with KeyTimeoutError
\* carrying the resolved path of the key whenever its last watch timed out.
\* The call ends otherwise only in two ways: wait_key_index returns
\* (None, the store's index) when its watch was answered with index-cleared
\* (read_key then waits again from that index), and the
\* cluster-identity-changed signal ends either call with the unbound-name
\* error of the handler.
C9_TimeoutErrorNamesPath ==
    C9_Case
    => /\ outcome[RdProc].kind = "return"
          => /\ outcome[RdProc].none
             /\ op[RdProc].name = "wait_key_index"
             /\ stat[RdProc].signal = "cleared"
       /\ outcome[RdProc].kind = "raise"
          => stat[RdProc].signal \in {"timeout", "idchanged"}
       /\ stat[RdProc].signal = "timeout"
          => /\ outcome[RdProc].kind = "raise"
             /\ outcome[RdProc].cls = "KeyTimeoutError"
             /\ outcome[RdProc].path = C9_ResolvedPath
       /\ stat[RdProc].signal = "idchanged"
          => outcome[RdProc].cls = "UnboundLocalError"

\* A blocking read_key in a job waited again after index-cleared, and its
\* watch then timed out on the key that nobody wrote.
C9_Witness ==
    /\ C9_Case
    /\ BlockingRead
    /\ op[RdProc].key_type = "cluster"
    /\ stat[RdProc].retries > 0
    /\ stat[RdProc].watches > 0
    /\ outcome[RdProc].cls = "KeyTimeoutError"
    /\ outcome[RdProc].path = "/pcocc/cluster/7/k"

\* ================================================================ rank map
\* -------------------------------------------------------- rank map bounds
MaxTasks == 2          \* tasks per node a block may declare
MaxRep == 2            \* nodes a block may stand for
MaxBlocks == 2         \* blocks of SLURM_TASKS_PER_NODE

\* The numbers that occur as text: counts, repetitions and node indices.
Numbers == 0 .. (MaxBlocks * MaxRep + MaxTasks + 4)

\* int(text): the number whose decimal form the text is.
ParseInt(text) == CHOOSE n \in Numbers : ToString(n) = text

\* One block of SLURM_TASKS_PER_NODE as slurm writes it: "n" for one node
\* with n tasks, "n(xm)" for m nodes with n tasks each.
NodeDefText(ntasks, nnodes, rep) ==
    IF rep THEN ToString(ntasks) \o "(x" \o ToString(nnodes) \o ")"
    ELSE ToString(ntasks)

\* match = re.search(r'(\d+)\(x(\d+)\)', node_def); the counts of the block
\* are the groups of the match, or int(node_def) and 1 without a match.
ParseNodeDef(node_def) ==
    IF \E n, m \in Numbers : node_def = NodeDefText(n, m, TRUE)
    THEN LET g == CHOOSE g \in Numbers \X Numbers :
                      node_def = NodeDefText(g[1], g[2], TRUE)
         IN [ntasks |-> g[1], nnodes |-> g[2]]
    ELSE [ntasks |-> ParseInt(node_def), nnodes |-> 1]

\* for _ in xrange(ntasks): self._rank_map.append(node_index)
RECURSIVE AppendTasks(_, _, _)
AppendTasks(rank_map, ntasks, node_index) ==
    IF ntasks = 0 THEN rank_map
    ELSE AppendTasks(Append(rank_map, node_index), ntasks - 1, node_index)

\* A block whose nodes all take the index of its first node.
AppendNodesOneIndex(rank_map, ntasks, nnodes, node_index) ==
    [rank_map |-> AppendTasks(rank_map, ntasks * nnodes, node_index),
     node_index |-> node_index + 1]

\* for _ in xrange(nnodes): ...; node_index += 1
RECURSIVE AppendNodes(_, _, _, _)
AppendNodes(rank_map, ntasks, nnodes, node_index) ==
    IF nnodes = 0 THEN [rank_map |-> rank_map, node_index |-> node_index]
    ELSE AppendNodes(AppendTasks(rank_map, ntasks, node_index), ntasks,
                     nnodes - 1, node_index + 1)

\* for node_def in tasks_per_node.split(','): ...
RECURSIVE ExpandNodeDefs(_, _, _)
ExpandNodeDefs(node_defs, rank_map, node_index) ==
    IF node_defs = <<>> THEN rank_map
    ELSE LET d == ParseNodeDef(Head(node_defs))
             r == AppendNodes(rank_map, d.ntasks, d.nnodes, node_index)
         IN ExpandNodeDefs(Tail(node_defs), r.rank_map, r.node_index)

\* The rank map _build_rank_map leaves in self._rank_map, for
\* SLURM_TASKS_PER_NODE given as the blocks split(',') cuts it into.
ExpandTasksPerNode(tasks_per_node) == ExpandNodeDefs(tasks_per_node, <<>>, 0)

\* self._rank_map[rank]: ranks count from 0.
RankMapAt(rank_map, rank) == rank_map[rank + 1]

\* while rank - rank_on_host >= 0 and
\*       self._rank_map[rank - rank_on_host] == host_rank: rank_on_host += 1
RECURSIVE RankOnHostLoop(_, _, _)
RankOnHostLoop(rank_map, rank, rank_on_host) ==
    IF /\ rank - rank_on_host >= 0
       /\ RankMapAt(rank_map, rank - rank_on_host) = RankMapAt(rank_map, rank)
    THEN RankOnHostLoop(rank_map, rank, rank_on_host + 1)
    ELSE rank_on_host

\* A position that is the loop's last value as it stands.
GetRankOnHostCount(rank_map, rank) == RankOnHostLoop(rank_map, rank, 0)

\* get_rank_on_host(rank), past its job check.
GetRankOnHost(rank_map, rank) == RankOnHostLoop(rank_map, rank, 0) - 1

\* yaml.dump(rank_map): the flow sequence "[a, b, ...]" as its tokens.
RECURSIVE YamlItems(_)
YamlItems(seq) ==
    IF seq = <<>> THEN <<>>
    ELSE IF Len(seq) = 1 THEN <<ToString(Head(seq))>>
    ELSE <<ToString(Head(seq)), ",">> \o YamlItems(Tail(seq))

YamlDump(seq) == <<"[">> \o YamlItems(seq) \o <<"]">>

\* yaml.safe_load(data) of such a text: the integers between the brackets.
RECURSIVE YamlScalars(_)
YamlScalars(tokens) ==
    IF tokens = <<>> THEN <<>>
    ELSE IF Head(tokens) \in {"[", ",", "]"} THEN YamlScalars(Tail(tokens))
    ELSE <<ParseInt(Head(tokens))>> \o YamlScalars(Tail(tokens))

\* A parse that stops after the first scalar.
YamlLoadFirst(data) == SubSeq(YamlScalars(data), 1, 1)

YamlLoad(data) == YamlScalars(data)

\* ----------------------------------------------- SlurmManager.__init__
\* ProcessType
SETUP == 1
HYPERVISOR == 2
LAUNCHER == 3
USER == 4
OTHER_ == 5         \* ProcessType.OTHER
ProcessTypes == {SETUP, HYPERVISOR, LAUNCHER, USER, OTHER_}

\* self.node_rank: the index of the host in the nodeset, -1 when the host is
\* not in it.
NodeRanks == {-1, 0, 1}

\* The fields of self the constructor sets, with the locals of the
\* read_key call a loader makes.
RankLoc0 ==
    [index |-> 0, hasEv |-> FALSE, ev |-> NoEvent, proc_type |-> OTHER_,
     node_rank |-> -1, rank_map |-> <<>>, expanded |-> FALSE]

\* A gate that lets the node setup process of any node publish.
PublishesAnyRank(proc_type, node_rank) == proc_type = SETUP

\* if self.proc_type == ProcessType.SETUP and self.node_rank == 0
Publishes(proc_type, node_rank) == proc_type = SETUP /\ node_rank = 0

\* "if data" of a text.
TextTruthy(data) == data # <<>>

RankFrame ==
    UNCHANGED <<now, kv0, env, tf, last_cred_renew, credReq, clientPw>>

\* if self.batchid == 0 or self.proc_type == ProcessType.OTHER_: return
NoJobState(p) ==
    /\ pc[p] = "init"
    /\ ~InAJob(op[p].batchid) \/ loc[p].proc_type = OTHER_
    /\ pc' = [pc EXCEPT ![p] = "ready"]
    /\ StoreUnchanged
    /\ RankFrame
    /\ UNCHANGED <<op, loc, outcome, stat>>

\* __init__ of a node setup, launcher or hypervisor process, which calls
\* _build_rank_map: the process expands SLURM_TASKS_PER_NODE into its
\* _rank_map and, when the gate lets it, writes the map to the key.
BuildRankMap(p) ==
    /\ pc[p] = "init"
    /\ InAJob(op[p].batchid)
    /\ loc[p].proc_type \in {SETUP, LAUNCHER, HYPERVISOR}
    /\ LET rank_map == ExpandTasksPerNode(env.tasks_per_node)
           data == YamlDump(rank_map)
       IN IF Publishes(loc[p].proc_type, loc[p].node_rank)
          THEN /\ CommitSet(data)
               /\ loc' = [Deliver(Event(TRUE, TRUE, data)) EXCEPT
                            ![p].rank_map = rank_map,
                            ![p].expanded = TRUE]
               /\ stat' = [stat EXCEPT ![p].writes = @ + 1]
          ELSE /\ StoreUnchanged
               /\ loc' = [loc EXCEPT ![p].rank_map = rank_map,
                                     ![p].expanded = TRUE]
               /\ UNCHANGED stat
    /\ pc' = [pc EXCEPT ![p] = "ready"]
    /\ RankFrame
    /\ UNCHANGED <<op, outcome>>

\* __init__ of a user process, which calls _load_rank_map: data =
\* self.read_key('cluster', 'rank_map', blocking=True).  The first read
\* either finds the text, and the map is loaded from it, or read_key goes
\* on to wait from the index of that read.
LoadRankMap(p) ==
    /\ pc[p] = "init"
    /\ InAJob(op[p].batchid)
    /\ loc[p].proc_type \notin {SETUP, LAUNCHER, HYPERVISOR, OTHER_}
    /\ loc[p].rank_map = <<>>
    /\ LET r == ReadKeyIndex(FALSE)
       IN IF r.found /\ TextTruthy(r.value)
          THEN /\ pc' = [pc EXCEPT ![p] = "ready"]
               /\ loc' = [loc EXCEPT ![p].rank_map = YamlLoad(r.value)]
               /\ outcome' = [outcome EXCEPT ![p] = Return(r.value)]
          ELSE /\ pc' = [pc EXCEPT ![p] = "wk_arm"]
               /\ loc' = [loc EXCEPT ![p].index = r.index]
               /\ UNCHANGED outcome
    /\ stat' = [stat EXCEPT ![p].attempts = @ + 1]
    /\ StoreUnchanged
    /\ RankFrame
    /\ UNCHANGED op

\* read_key has ended: its exception leaves __init__; data that is None or
\* empty raises BatchError; any other data is parsed into the map.
LoadRankMapEnd(p) ==
    /\ pc[p] = "done"
    /\ IF outcome[p].kind = "raise"
       THEN /\ pc' = [pc EXCEPT ![p] = "failed"]
            /\ UNCHANGED <<loc, outcome>>
       ELSE IF outcome[p].none \/ ~TextTruthy(outcome[p].ret)
       THEN /\ pc' = [pc EXCEPT ![p] = "failed"]
            /\ outcome' = [outcome EXCEPT ![p] = Raise("BatchError")]
            /\ UNCHANGED loc
       ELSE /\ pc' = [pc EXCEPT ![p] = "ready"]
            /\ loc' = [loc EXCEPT ![p].rank_map = YamlLoad(outcome[p].ret)]
            /\ UNCHANGED outcome
    /\ StoreUnchanged
    /\ RankFrame
    /\ UNCHANGED <<op, stat>>

\* SLURM_TASKS_PER_NODE of the job the processes start in.
RankDist == <<NodeDefText(MaxTasks, MaxRep, TRUE), NodeDefText(1, 1, FALSE)>>

EnvJob(tasks_per_node) ==
    [deletes |-> 0, writes |-> 0, other |-> 0, authFaults |-> 0,
     idChanges |-> MaxIdChanges, tasks_per_node |-> tasks_per_node]

\* The processes of one job start, each with its role and on its node; the
\* rank_map key of the job is not there yet.
InitRank ==
    /\ now = 0
    /\ etcdIndex = 1
    /\ history = <<>>
    /\ kids = {}
    /\ kv = [exists |-> FALSE, val |-> <<>>, mod |-> 0]
    /\ kv0 = kv
    /\ env = EnvJob(RankDist)
    /\ op = [p \in Procs |->
               [Op0 EXCEPT !.name = "read_key", !.key = "rank_map",
                           !.blocking = TRUE]]
    /\ pc = [p \in Procs |-> "init"]
    /\ tf = [p \in Procs |-> "Incr"]
    /\ loc \in [Procs -> {[RankLoc0 EXCEPT !.index = etcdIndex,
                                            !.proc_type = t,
                                            !.node_rank = n] :
                            t \in ProcessTypes, n \in NodeRanks}]
    /\ outcome = [p \in Procs |-> Pending]
    /\ last_cred_renew = [p \in Procs |-> 0]
    /\ credReq = [p \in Procs |-> 1]
    /\ clientPw = [p \in Procs |-> 1]
    /\ stat = [p \in Procs |-> Stat0]

NextRank ==
    \/ \E p \in Procs : NoJobState(p)
    \/ \E p \in Procs : BuildRankMap(p)
    \/ \E p \in Procs : LoadRankMap(p)
    \/ \E p \in Procs : WatchArm(p)
    \/ \E p \in Procs : WatchFire(p)
    \/ \E p \in Procs : WatchIdChanged(p)
    \/ \E p \in Procs : LoadRankMapEnd(p)

SpecRank == InitRank /\ [][NextRank]_vars

\* ------------------------------------------------------- claims: rank map
Builders == {p \in Procs : loc[p].expanded}
Loaders == {p \in Procs : loc[p].proc_type = USER}

\* C11: the rank_map key of the job is written only by a node setup process
\* on the node of rank 0: every step that changes the key is the constructor
\* of such a process, and no process of another role or another node rank
\* (-1 included) has ever written it.
C11_SingleWriter ==
    [][/\ kv' # kv
          => \E p \in Procs :
                /\ loc[p].proc_type = SETUP
                /\ loc[p].node_rank = 0
                /\ pc[p] = "init" /\ pc'[p] = "ready"
                /\ stat'[p].writes = stat[p].writes + 1
       /\ \A p \in Procs :
             stat'[p].writes > 0
             => loc'[p].proc_type = SETUP /\ loc'[p].node_rank = 0]_vars

\* The setup process of node 0 has published the map while another process,
\* a setup process of another node or a process of another role on node 0,
\* has built its own and written nothing.
C11_Witness ==
    /\ kv.exists
    /\ \E p \in Procs : stat[p].writes > 0
    /\ \E p \in Procs :
         /\ pc[p] = "ready" /\ stat[p].writes = 0 /\ loc[p].expanded
         /\ \/ loc[p].proc_type = SETUP /\ loc[p].node_rank # 0
            \/ loc[p].proc_type # SETUP /\ loc[p].node_rank = 0

\* C12: the distribution string is expanded once per job, by the node setup
\* process of node 0 and by no other process.
C12_ExpandedOnce ==
    /\ Cardinality(Builders) <= 1
    /\ \A p \in Builders :
         loc[p].proc_type = SETUP /\ loc[p].node_rank = 0

RankQueries ==
    {"is_rank_local", "get_rank_host", "get_host_rank", "get_rank_on_host",
     "num_nodes", "task_rank"}

\* What the query returns in a job.  A host stands for its index in the
\* nodeset, True for 1 and False for 0.
RankQueryValue(name, rank_map, node_rank, rank) ==
    IF name = "is_rank_local"
    THEN IF node_rank = RankMapAt(rank_map, rank) THEN 1 ELSE 0
    ELSE IF name = "get_rank_on_host" THEN GetRankOnHost(rank_map, rank)
    ELSE RankMapAt(rank_map, rank)

\* A constructed process asks about a rank (is_rank_local, get_rank_host,
\* get_host_rank, get_rank_on_host) or about the job (num_nodes, task_rank):
\* the job check comes first, then the look-up in self._rank_map, which
\* raises IndexError past its end.  op.count holds the rank asked about.
\* A query changes nothing of the process, so a behaviour holds one.
RankQuery(p) ==
    /\ pc[p] = "ready"
    /\ op[p].name \notin RankQueries
    /\ \E name \in RankQueries : \E rank \in 0 .. Len(loc[p].rank_map) :
         /\ name \in {"num_nodes", "task_rank"} => rank = 0
         /\ op' = [op EXCEPT ![p].name = name, ![p].count = rank]
         /\ outcome' = [outcome EXCEPT ![p] =
              IF OnlyInAJob(op[p].batchid) # ""
              THEN Raise(OnlyInAJob(op[p].batchid))
              ELSE IF name = "num_nodes" THEN Return(env.num_nodes)
              ELSE IF name = "task_rank" THEN Return(env.procid)
              ELSE IF rank >= Len(loc[p].rank_map) THEN Raise("IndexError")
              ELSE Return(RankQueryValue(name, loc[p].rank_map,
                                         loc[p].node_rank, rank))]
    /\ StoreUnchanged
    /\ RankFrame
    /\ UNCHANGED <<pc, loc, stat>>

\* ------------------------------------------------ distributions of a job
\* The blocks a distribution may be made of: n tasks on one node, written
\* "n" or "n(x1)", or n tasks on each of m nodes, written "n(xm)".
Blocks ==
    { [ntasks |-> n, nnodes |-> m, rep |-> r] :
        n \in 1 .. MaxTasks, m \in 1 .. MaxRep, r \in BOOLEAN }
    \ { b \in [ntasks : 1 .. MaxTasks, nnodes : 1 .. MaxRep, rep : BOOLEAN] :
          ~b.rep /\ b.nnodes # 1 }

Distributions == UNION { [1 .. k -> Blocks] : k \in 1 .. MaxBlocks }

\* SLURM_TASKS_PER_NODE for the blocks, cut at its commas.
TasksPerNodeText(blocks) ==
    [i \in 1 .. Len(blocks) |->
        NodeDefText(blocks[i].ntasks, blocks[i].nnodes, blocks[i].rep)]

\* The environment of a process of a job with the given blocks: declared
\* keeps the blocks as numbers, num_nodes is len(self.nodeset).
RECURSIVE NumNodes(_)
NumNodes(blocks) ==
    IF blocks = <<>> THEN 0 ELSE Head(blocks).nnodes + NumNodes(Tail(blocks))

EnvDist(blocks) ==
    [deletes |-> 0, writes |-> 0, other |-> 0, authFaults |-> 0,
     idChanges |-> 0, tasks_per_node |-> TasksPerNodeText(blocks),
     declared |-> blocks, num_nodes |-> NumNodes(blocks), procid |-> 0]

DistProc == 1

\* A launcher of a job with any distribution builds its rank map and then
\* answers queries about it.
InitDist ==
    /\ now = 0
    /\ etcdIndex = 1
    /\ history = <<>>
    /\ kids = {}
    /\ kv = [exists |-> FALSE, val |-> <<>>, mod |-> 0]
    /\ kv0 = kv
    /\ \E blocks \in Distributions : env = EnvDist(blocks)
    /\ op = [p \in Procs |-> [Op0 EXCEPT !.name = "__init__"]]
    /\ pc = [p \in Procs |-> IF p = DistProc THEN "init" ELSE "idle"]
    /\ tf = [p \in Procs |-> "Incr"]
    /\ loc = [p \in Procs |->
                [RankLoc0 EXCEPT !.proc_type = LAUNCHER, !.node_rank = 0]]
    /\ outcome = [p \in Procs |-> Pending]
    /\ last_cred_renew = [p \in Procs |-> 0]
    /\ credReq = [p \in Procs |-> 1]
    /\ clientPw = [p \in Procs |-> 1]
    /\ stat = [p \in Procs |-> Stat0]

NextDist ==
    \/ BuildRankMap(DistProc)
    \/ RankQuery(DistProc)

SpecDist == InitDist /\ [][NextDist]_vars

\* ---------------------------------------------------- claims: distribution
\* The task count declared for each node, one entry a node, in the order of
\* the blocks.
RECURSIVE DeclaredCounts(_)
DeclaredCounts(blocks) ==
    IF blocks = <<>> THEN <<>>
    ELSE [k \in 1 .. Head(blocks).nnodes |-> Head(blocks).ntasks]
         \o DeclaredCounts(Tail(blocks))

RECURSIVE SumSeq(_)
SumSeq(seq) == IF seq = <<>> THEN 0 ELSE Head(seq) + SumSeq(Tail(seq))

BuiltMap == loc[DistProc].rank_map

\* C14: the rank map built from a valid distribution string has as many
\* entries as the string declares tasks, never decreases, and holds node
\* index i exactly as many times as the i-th node has tasks; "4(x2),2" gives
\* [0,0,0,0,1,1,1,1,2,2].
C14_RankMapMatchesDistribution ==
    /\ pc[DistProc] = "ready"
       => LET counts == DeclaredCounts(env.declared)
          IN /\ Len(BuiltMap) = SumSeq(counts)
             /\ \A i, j \in 1 .. Len(BuiltMap) :
                   i <= j => BuiltMap[i] <= BuiltMap[j]
             /\ \A i \in 1 .. Len(BuiltMap) :
                   BuiltMap[i] \in 0 .. Len(counts) - 1
             /\ \A n \in 1 .. Len(counts) :
                   Cardinality({i \in 1 .. Len(BuiltMap) :
                                   BuiltMap[i] = n - 1}) = counts[n]
    /\ ExpandTasksPerNode(<<"4(x2)", "2">>) = <<0, 0, 0, 0, 1, 1, 1, 1, 2, 2>>

\* The map of a distribution of two blocks, the first of them for several
\* nodes of several tasks.
C14_Witness ==
    /\ pc[DistProc] = "ready"
    /\ Len(env.declared) = 2
    /\ env.declared[1].rep
    /\ env.declared[1].nnodes > 1
    /\ env.declared[1].ntasks > 1
    /\ Len(BuiltMap) > 4

\* The ranks on the host of the given rank.
SameHost(rank) ==
    {r \in 0 .. Len(BuiltMap) - 1 : BuiltMap[r + 1] = BuiltMap[rank + 1]}

RankOnHostAnswered ==
    /\ op[DistProc].name = "get_rank_on_host"
    /\ outcome[DistProc].kind = "return"

\* C15: get_rank_on_host(rank) is rank minus the smallest rank on the same
\* node: 0 for the first task of each host, rank 0 included, and one more
\* than the position of rank - 1 when that rank is on the same host.
C15_RankOnHost ==
    RankOnHostAnswered
    => LET rank == op[DistProc].count
           first == CHOOSE r \in SameHost(rank) :
                       \A q \in SameHost(rank) : r <= q
       IN /\ outcome[DistProc].ret = rank - first
          /\ rank = 0 => outcome[DistProc].ret = 0
          /\ (rank > 0 /\ BuiltMap[rank] # BuiltMap[rank + 1])
             => outcome[DistProc].ret = 0
          /\ (rank > 0 /\ BuiltMap[rank] = BuiltMap[rank + 1])
             => outcome[DistProc].ret = (rank - 1 - first) + 1

\* The rank asked about is not the first of its host, and its host is not
\* the first of the job.
C15_Witness ==
    /\ RankOnHostAnswered
    /\ outcome[DistProc].ret > 0
    /\ BuiltMap[op[DistProc].count + 1] > 0

\* ------------------------------------------- keystore calls of a process
KeyOps ==
    {"read_key", "write_key", "delete_key", "wait_key_index",
     "wait_child_count"}

\* The scopes get_key_path knows, and one it does not.
KeyTypes == {"global", "global/user", "cluster", "cluster/user", "node"}

JobProc == 1

\* Where a keystore call stands once it has its key_path.
FirstPc(name) ==
    IF name = "read_key" THEN "rk_read"
    ELSE IF name = "write_key" THEN "wr_write"
    ELSE IF name = "delete_key" THEN "dk_delete"
    ELSE IF name = "wait_key_index" THEN "wk_arm"
    ELSE "wc_read"

\* A constructed process calls a keystore method, whose first statement is
\* key_path = self.get_key_path(key_type, key): NoJobError or KeyError ends
\* the call there, as the wrapper catches the store's exceptions only;
\* otherwise the call stands before its request with the path in hand.
KeyPathStep(p) ==
    /\ pc[p] = "ready"
    /\ op[p].name = "__init__"
    /\ \E name \in KeyOps : \E key_type \in KeyTypes : \E blocking \in BOOLEAN :
         LET kp == GetKeyPath(key_type, op[p].key, op[p].batchuser,
                              op[p].batchid)
         IN /\ name # "read_key" => blocking
            /\ op' = [op EXCEPT ![p].name = name, ![p].key_type = key_type,
                                ![p].blocking = blocking,
                                ![p].timeout = WaitChildTimeout,
                                ![p].count = 1]
            /\ IF kp.err # ""
               THEN /\ pc' = [pc EXCEPT ![p] = "done"]
                    /\ outcome' = [outcome EXCEPT ![p] = Raise(kp.err)]
               ELSE /\ pc' = [pc EXCEPT ![p] = FirstPc(name)]
                    /\ outcome' = [outcome EXCEPT ![p].path = kp.path]
    /\ loc' = [loc EXCEPT ![p].index = etcdIndex]
    /\ StoreUnchanged
    /\ RankFrame
    /\ UNCHANGED stat

\* return self.keyval_client.write(key_path, value)
WriteKey(p) ==
    /\ pc[p] = "wr_write"
    /\ CommitSet(1)
    /\ pc' = [pc EXCEPT ![p] = "done"]
    /\ outcome' = [outcome EXCEPT ![p] = Return(1)]
    /\ stat' = [stat EXCEPT ![p].writes = @ + 1]
    /\ loc' = Deliver(Event(TRUE, TRUE, 1))
    /\ RankFrame
    /\ UNCHANGED op

\* self.keyval_client.delete(key_path, recursive = False, dir = False)
DeleteKey(p) ==
    /\ pc[p] = "dk_delete"
    /\ IF kv.exists
       THEN /\ CommitDelete
            /\ outcome' = [outcome EXCEPT ![p] = ReturnNone(0)]
            /\ loc' = Deliver(Event(TRUE, FALSE, kv.val))
       ELSE /\ StoreUnchanged
            /\ outcome' = [outcome EXCEPT ![p] = RaiseErr(EtcdKeyNotFound)]
            /\ UNCHANGED loc
    /\ pc' = [pc EXCEPT ![p] = "done"]
    /\ stat' = [stat EXCEPT ![p].writes = @ + 1]
    /\ RankFrame
    /\ UNCHANGED op

\* The blocks of the job the process may be in.
JobBlocks == <<[ntasks |-> MaxTasks, nnodes |-> MaxRep, rep |-> TRUE]>>

\* One launcher, in a job (batchid 7) or in none (batchid 0), is constructed
\* and then makes one call: a rank query or a keystore call in some scope.
InitJob ==
    /\ now = 0
    /\ etcdIndex = 1
    /\ history = <<>>
    /\ kids = {}
    /\ \E found \in BOOLEAN :
         kv = [exists |-> found, val |-> IF found THEN 1 ELSE 0,
               mod |-> IF found THEN 1 ELSE 0]
    /\ kv0 = kv
    /\ env = EnvDist(JobBlocks)
    /\ \E batchid \in {0, Op0.batchid} : \E batchuser \in {"bob", "eve"} :
         op = [p \in Procs |->
                 [Op0 EXCEPT !.name = "__init__", !.batchid = batchid,
                             !.batchuser = batchuser]]
    /\ pc = [p \in Procs |-> IF p = JobProc THEN "init" ELSE "idle"]
    /\ tf = [p \in Procs |-> "Incr"]
    /\ loc = [p \in Procs |->
                [RankLoc0 EXCEPT !.proc_type = LAUNCHER, !.node_rank = 0]]
    /\ outcome = [p \in Procs |-> Pending]
    /\ last_cred_renew = [p \in Procs |-> 0]
    /\ credReq = [p \in Procs |-> 1]
    /\ clientPw = [p \in Procs |-> 1]
    /\ stat = [p \in Procs |-> Stat0]

NextJob ==
    \/ NoJobState(JobProc)
    \/ BuildRankMap(JobProc)
    \/ RankQuery(JobProc)
    \/ KeyPathStep(JobProc)
    \/ ReadKey(JobProc)
    \/ WriteKey(JobProc)
    \/ DeleteKey(JobProc)
    \/ WatchArm(JobProc)
    \/ WatchTimeout(JobProc)
    \/ WaitChildRead(JobProc)

SpecJob == InitJob /\ [][NextJob]_vars

\* ------------------------------------------------------------ claims: job
JobOp == op[JobProc]
JobScoped == JobOp.key_type \in {"cluster", "cluster/user"}

ResolvesPath ==
    /\ op[JobProc].name = "__init__"
    /\ op'[JobProc].name \in KeyOps

\* C17: get_key_path maps global to /pcocc/global/<key>, global/user to
\* /pcocc/global/users/<user>/<key>, cluster to /pcocc/cluster/<batchid>/<key>
\* and cluster/user to /pcocc/cluster/users/<user>/<batchid>/<key>; another
\* scope is an error; the two global scopes resolve with and without a job,
\* the two cluster scopes only in a job; and resolving changes nothing of
\* the store or of the process.
C17_KeyPath ==
    [][ResolvesPath
       => LET o == op'[JobProc]
              res == outcome'[JobProc]
              root == "/pcocc"
          IN /\ o.key_type = "global"
                => res.kind = "pending"
                   /\ res.path = root \o "/global/" \o o.key
             /\ o.key_type = "global/user"
                => res.kind = "pending"
                   /\ res.path = root \o "/global/users/" \o o.batchuser
                                 \o "/" \o o.key
             /\ (o.key_type = "cluster" /\ o.batchid # 0)
                => res.kind = "pending"
                   /\ res.path = root \o "/cluster/" \o ToString(o.batchid)
                                 \o "/" \o o.key
             /\ (o.key_type = "cluster/user" /\ o.batchid # 0)
                => res.kind = "pending"
                   /\ res.path = root \o "/cluster/users/" \o o.batchuser
                                 \o "/" \o ToString(o.batchid) \o "/" \o o.key
             /\ (o.key_type \in {"cluster", "cluster/user"} /\ o.batchid = 0)
                => res.kind = "raise" /\ res.cls = "NoJobError"
             /\ o.key_type \notin {"global", "global/user", "cluster",
                                   "cluster/user"}
                => res.kind = "raise" /\ res.cls = "KeyError"
             /\ UNCHANGED <<etcdIndex, kv, kids, history, env, now,
                            last_cred_renew, credReq, clientPw, stat>>
             /\ o.batchid = op[JobProc].batchid
             /\ o.batchuser = op[JobProc].batchuser
             /\ loc'[JobProc].rank_map = loc[JobProc].rank_map]_vars

\* A path of the cluster/user scope was resolved in a job.
C17_Witness ==
    /\ JobOp.name \in KeyOps
    /\ JobOp.key_type = "cluster/user"
    /\ JobOp.batchuser = "eve"
    /\ outcome[JobProc].path = "/pcocc/cluster/users/eve/7/k"

\* ================================================================ password
ETCD_PASSWORD_BYTES == 16
MaxCalls == 2          \* calls of _get_credential a process makes

\* len(binascii.b2a_hex(os.urandom(ETCD_PASSWORD_BYTES)))
HexLen == 2 * ETCD_PASSWORD_BYTES

\* A file: whether it is there and can be read, the length of its text
\* without the white space around it, the length of that white space, and
\* tag, which tells one secret from another.
NoFile == [state |-> "absent", len |-> 0, pad |-> 0, tag |-> 0]
FileOf(state, len, pad, tag) ==
    [state |-> state, len |-> len, pad |-> pad, tag |-> tag]

\* self._etcd_password: None, or a text by its length and tag.
NoPassword == [none |-> TRUE, len |-> 0, tag |-> 0]
Password(len, tag) == [none |-> FALSE, len |-> len, tag |-> tag]

\* open(pwd_path).read().strip()
ReadStrip(f) == Password(f.len, f.tag)

\* len(self._etcd_password) != 2 * ETCD_PASSWORD_BYTES
BadLength(password) == password.len # HexLen

\* A handler that generates after any error of the read.
MayGenerateAlways(errno, proc_type) == TRUE

\* except (OSError, IOError) as e: the handler goes on to generate unless
\* e.errno != errno.ENOENT or self.proc_type == ProcessType.HYPERVISOR.
MayGenerate(errno, proc_type) == errno = "ENOENT" /\ proc_type # HYPERVISOR

PwLoc0 == [uid |-> 0, proc_type |-> USER, etcd_password |-> NoPassword]

\* The file _init_password reads for the caller: <conf_dir>/etcd-password
\* for uid 0, ~/.pcocc/.etcd-password for a user.
PwdFile(p) == IF loc[p].uid = 0 THEN env.admin_file ELSE env.pwd_file

PwFrame ==
    /\ StoreUnchanged
    /\ UNCHANGED <<now, kv0, op, tf, last_cred_renew, clientPw, stat>>

\* The call ends with KeyCredentialError.
PwFail(p) ==
    /\ pc' = [pc EXCEPT ![p] = "done"]
    /\ outcome' = [outcome EXCEPT ![p] = Raise("KeyCredentialError")]

\* _get_credential with etcd-auth-type password: the cached password when
\* there is one, _init_password otherwise.
GetCredential(p) ==
    /\ pc[p] \in {"idle", "done"}
    /\ credReq[p] < MaxCalls
    /\ credReq' = [credReq EXCEPT ![p] = @ + 1]
    /\ IF loc[p].etcd_password.none
       THEN /\ pc' = [pc EXCEPT ![p] = "pw_stat"]
            /\ outcome' = [outcome EXCEPT ![p] = Pending]
       ELSE /\ pc' = [pc EXCEPT ![p] = "done"]
            /\ outcome' = [outcome EXCEPT ![p] = Return(loc[p].etcd_password)]
    /\ PwFrame
    /\ UNCHANGED <<env, loc>>

\* st = os.stat(pwd_path).  For uid 0 any exception is a KeyCredentialError;
\* for a user the handler of OSError decides.
PwStat(p) ==
    /\ pc[p] = "pw_stat"
    /\ LET f == PwdFile(p)
       IN IF f.state = "absent"
          THEN IF loc[p].uid # 0 /\ MayGenerate("ENOENT", loc[p].proc_type)
               THEN /\ pc' = [pc EXCEPT ![p] = "pw_gen"]
                    /\ UNCHANGED outcome
               ELSE PwFail(p)
          ELSE /\ pc' = [pc EXCEPT ![p] = "pw_read"]
               /\ UNCHANGED outcome
    /\ PwFrame
    /\ UNCHANGED <<env, loc, credReq>>

\* self._etcd_password = open(pwd_path).read().strip(), and for a user the
\* check of its length, which raises with the text left in the field.
PwRead(p) ==
    /\ pc[p] = "pw_read"
    /\ LET f == PwdFile(p)
       IN IF f.state = "absent"
          THEN /\ IF loc[p].uid # 0
                     /\ MayGenerate("ENOENT", loc[p].proc_type)
                  THEN /\ pc' = [pc EXCEPT ![p] = "pw_gen"]
                       /\ UNCHANGED outcome
                  ELSE PwFail(p)
               /\ UNCHANGED loc
          ELSE IF f.state = "unreadable"
          THEN /\ IF loc[p].uid # 0
                     /\ MayGenerate("EACCES", loc[p].proc_type)
                  THEN /\ pc' = [pc EXCEPT ![p] = "pw_gen"]
                       /\ UNCHANGED outcome
                  ELSE PwFail(p)
               /\ UNCHANGED loc
          ELSE /\ loc' = [loc EXCEPT ![p].etcd_password = ReadStrip(f)]
               /\ IF loc[p].uid # 0 /\ BadLength(ReadStrip(f))
                  THEN PwFail(p)
                  ELSE /\ pc' = [pc EXCEPT ![p] = "done"]
                       /\ outcome' = [outcome EXCEPT ![p] =
                                         Return(ReadStrip(f))]
    /\ PwFrame
    /\ UNCHANGED <<env, credReq>>

\* The user's process makes the directory, draws a secret into
\* self._etcd_password and opens the file with O_CREAT | O_WRONLY | O_TRUNC
\* and mode 0400: a file that is there by now was made with that mode, so
\* the open fails and the call ends with KeyCredentialError.
PwGenerate(p) ==
    /\ pc[p] = "pw_gen"
    /\ loc' = [loc EXCEPT ![p].etcd_password = Password(HexLen, p)]
    /\ IF env.pwd_file.state = "absent"
       THEN /\ env' = [env EXCEPT !.pwd_file = FileOf("present", HexLen, 0, p)]
            /\ pc' = [pc EXCEPT ![p] = "done"]
            /\ outcome' = [outcome EXCEPT ![p] = Return(Password(HexLen, p))]
       ELSE /\ PwFail(p)
            /\ UNCHANGED env
    /\ PwFrame
    /\ UNCHANGED credReq

\* The files the processes may find: none, a secret of the right length
\* with or without a newline after it, a text of another length, or a file
\* they may not read.
PwdFiles ==
    { NoFile, FileOf("present", HexLen, 0, 0), FileOf("present", HexLen, 1, 0),
      FileOf("present", HexLen - 1, 1, 0), FileOf("unreadable", HexLen, 0, 0) }

AdminFiles == { NoFile, FileOf("present", HexLen - 1, 1, 0) }

\* Processes of one user, or of root, hypervisors or not, ask for the
\* credential.
InitPw ==
    /\ now = 0
    /\ etcdIndex = 1
    /\ history = <<>>
    /\ kids = {}
    /\ kv = [exists |-> FALSE, val |-> 0, mod |-> 0]
    /\ kv0 = kv
    /\ \E f \in PwdFiles : \E a \in AdminFiles :
         env = [deletes |-> 0, writes |-> 0, other |-> 0, authFaults |-> 0,
                idChanges |-> 0, pwd_file |-> f, admin_file |-> a,
                pwd_file0 |-> f]
    /\ op = [p \in Procs |-> [Op0 EXCEPT !.name = "_get_credential"]]
    /\ pc = [p \in Procs |-> "idle"]
    /\ tf = [p \in Procs |-> "Incr"]
    /\ loc \in [Procs -> {[PwLoc0 EXCEPT !.uid = u, !.proc_type = t] :
                            u \in {0, 1000}, t \in {HYPERVISOR, USER}}]
    /\ outcome = [p \in Procs |-> Pending]
    /\ last_cred_renew = [p \in Procs |-> 0]
    /\ credReq = [p \in Procs |-> 0]
    /\ clientPw = [p \in Procs |-> 0]
    /\ stat = [p \in Procs |-> Stat0]

NextPw ==
    \/ \E p \in Procs : GetCredential(p)
    \/ \E p \in Procs : PwStat(p)
    \/ \E p \in Procs : PwRead(p)
    \/ \E p \in Procs : PwGenerate(p)

SpecPw == InitPw /\ [][NextPw]_vars

\* ------------------------------------------------------- claims: password
Users == {p \in Procs : loc[p].uid # 0}
MayGenerateProcs == {p \in Users : loc[p].proc_type # HYPERVISOR}

\* C18: a secret is generated, and the secret file written, only by a
\* process that is neither privileged nor a hypervisor and only when the
\* user's file is absent; a process of uid 0 never generates or writes one
\* and the administrative file is never written; a file that is there and
\* cannot be read ends the call in KeyCredentialError with nothing
\* generated.
C18_GenerateOnlyWhenAbsent ==
    [][/\ env'.admin_file = env.admin_file
       /\ env'.pwd_file # env.pwd_file
          => /\ env.pwd_file.state = "absent"
             /\ env'.pwd_file.len = HexLen
             /\ \E p \in MayGenerateProcs :
                   /\ pc[p] = "pw_gen" /\ pc'[p] = "done"
                   /\ env'.pwd_file.tag = p
       /\ \A p \in Procs :
             /\ pc'[p] = "pw_gen" => p \in MayGenerateProcs
             /\ (loc'[p].etcd_password # loc[p].etcd_password
                 /\ loc'[p].etcd_password.tag = p)
                => p \in MayGenerateProcs /\ pc[p] = "pw_gen"
             /\ (pc[p] = "pw_read" /\ pc'[p] # "pw_read"
                 /\ PwdFile(p).state = "unreadable")
                => /\ pc'[p] = "done"
                   /\ outcome'[p].cls = "KeyCredentialError"
                   /\ loc'[p].etcd_password.none
                   /\ env' = env]_vars

\* A user's process has written the secret where no file was, and a
\* hypervisor of the same user, which found no file, has ended in
\* KeyCredentialError with no secret.
C18_Witness ==
    /\ env.pwd_file0.state = "absent"
    /\ env.pwd_file.state = "present"
    /\ \E p \in MayGenerateProcs :
         /\ env.pwd_file.tag = p
         /\ outcome[p].kind = "return"
    /\ \E p \in Users :
         /\ loc[p].proc_type = HYPERVISOR
         /\ pc[p] = "done"
         /\ outcome[p].cls = "KeyCredentialError"
         /\ loc[p].etcd_password.none

StaleFile ==
    /\ env.pwd_file0.state = "present"
    /\ env.pwd_file0.len # HexLen
    /\ env.pwd_file = env.pwd_file0

\* C19: while the user's secret file holds a text of another length than
\* 2 * 16, every call of _get_credential by a process of that user ends in
\* an error and none returns the text, the first call and the later ones.
C19_StaleSecretAlwaysRejected ==
    \A p \in Users :
       (StaleFile /\ pc[p] = "done" /\ credReq[p] >= 1)
       => /\ outcome[p].kind = "raise"
          /\ outcome[p].cls = "KeyCredentialError"

\* ================================================================= cleanup
\* ttl=600
CleanupTtl == 600

\* A directory of the store: whether it is there, and its time to live in
\* seconds, 0 for none.
NoDir == [exists |-> FALSE, ttl |-> 0]
DirOf(ttl) == [exists |-> TRUE, ttl |-> ttl]

\* A write that makes the directory when it is not there.
WriteDirTtlCreates(dir) == [err |-> NoErr, dir |-> DirOf(CleanupTtl)]

\* keyval_client.write(path, None, dir=True, prevExist=True, ttl=600): the
\* store sets the time to live of the directory, or answers key-not-found
\* when there is no such directory.
WriteDirTtl(dir) ==
    IF dir.exists THEN [err |-> NoErr, dir |-> DirOf(CleanupTtl)]
    ELSE [err |-> EtcdKeyNotFound, dir |-> dir]

\* The index moves with a committed write.
CommitDir ==
    /\ etcdIndex' = etcdIndex + 1
    /\ history' = Push(history, Event(FALSE, TRUE, 0))
    /\ UNCHANGED <<kv, kids>>

CleanupFrame ==
    UNCHANGED <<now, kv0, op, tf, loc, last_cred_renew, credReq, clientPw>>

\* The bare except of cleanup_cluster_keys took an exception: the call
\* returns None after its warning.
Absorbed(p, cls) ==
    /\ pc' = [pc EXCEPT ![p] = "done"]
    /\ outcome' = [outcome EXCEPT ![p] = ReturnNone(0)]
    /\ stat' = [stat EXCEPT ![p].signal = cls]

\* cleanup_cluster_keys up to its first write, of the cluster directory of
\* the job: get_key_path may raise NoJobError and the store may refuse the
\* request or miss the directory; each of them ends the call in the except.
CleanupClusterDir(p) ==
    /\ pc[p] = "idle"
    /\ LET kp == GetKeyPath("cluster", "", op[p].batchuser, op[p].batchid)
           w == WriteDirTtl(env.cluster_dir)
       IN \/ /\ kp.err # ""
             /\ Absorbed(p, kp.err)
             /\ StoreUnchanged
             /\ UNCHANGED env
          \/ /\ kp.err = ""
             /\ env.authFaults > 0
             /\ Absorbed(p, "EtcdException")
             /\ StoreUnchanged
             /\ env' = [env EXCEPT !.authFaults = @ - 1]
          \/ /\ kp.err = ""
             /\ w.err # NoErr
             /\ Absorbed(p, w.err.cls)
             /\ StoreUnchanged
             /\ UNCHANGED env
          \/ /\ kp.err = ""
             /\ w.err = NoErr
             /\ env' = [env EXCEPT !.cluster_dir = w.dir]
             /\ CommitDir
             /\ pc' = [pc EXCEPT ![p] = "c_user"]
             /\ stat' = [stat EXCEPT ![p].writes = @ + 1]
             /\ UNCHANGED outcome
    /\ CleanupFrame

\* The second write, of the cluster/user directory of the job, and the
\* return.
CleanupUserDir(p) ==
    /\ pc[p] = "c_user"
    /\ LET w == WriteDirTtl(env.user_dir)
       IN \/ /\ env.authFaults > 0
             /\ Absorbed(p, "EtcdException")
             /\ StoreUnchanged
             /\ env' = [env EXCEPT !.authFaults = @ - 1]
          \/ /\ w.err # NoErr
             /\ Absorbed(p, w.err.cls)
             /\ StoreUnchanged
             /\ UNCHANGED env
          \/ /\ w.err = NoErr
             /\ env' = [env EXCEPT !.user_dir = w.dir]
             /\ CommitDir
             /\ pc' = [pc EXCEPT ![p] = "done"]
             /\ outcome' = [outcome EXCEPT ![p] = ReturnNone(0)]
             /\ stat' = [stat EXCEPT ![p].writes = @ + 1]
    /\ CleanupFrame

\* The store drops a directory whose time to live has run out.
EnvExpire ==
    /\ \/ /\ env.cluster_dir.ttl > 0
          /\ env' = [env EXCEPT !.cluster_dir = NoDir,
                                !.expired = TRUE]
       \/ /\ env.user_dir.ttl > 0
          /\ env' = [env EXCEPT !.user_dir = NoDir, !.expired = TRUE]
    /\ CommitDir
    /\ CleanupFrame
    /\ UNCHANGED <<pc, outcome, stat>>

\* Processes in the job, or in none, clean up; each of the two directories
\* of the job is there or not.
InitCleanup ==
    /\ now = 0
    /\ etcdIndex = 1
    /\ history = <<>>
    /\ kids = {}
    /\ kv = [exists |-> FALSE, val |-> 0, mod |-> 0]
    /\ kv0 = kv
    /\ \E c \in {NoDir, DirOf(0)} : \E u \in {NoDir, DirOf(0)} :
       \E f \in 0 .. MaxAuthFaults :
         env = [deletes |-> 0, writes |-> 0, other |-> 0, authFaults |-> f,
                idChanges |-> 0, cluster_dir |-> c, user_dir |-> u,
                expired |-> FALSE]
    /\ op \in [Procs -> {[Op0 EXCEPT !.name = "cleanup_cluster_keys",
                                    !.key = "", !.batchid = b] :
                           b \in {0, Op0.batchid}}]
    /\ pc = [p \in Procs |-> "idle"]
    /\ tf = [p \in Procs |-> "Incr"]
    /\ loc = [p \in Procs |-> WatchLoc0]
    /\ outcome = [p \in Procs |-> Pending]
    /\ last_cred_renew = [p \in Procs |-> 0]
    /\ credReq = [p \in Procs |-> 1]
    /\ clientPw = [p \in Procs |-> 1]
    /\ stat = [p \in Procs |-> Stat0]

NextCleanup ==
    \/ \E p \in Procs : CleanupClusterDir(p)
    \/ \E p \in Procs : CleanupUserDir(p)
    \/ EnvExpire

SpecCleanup == InitCleanup /\ [][NextCleanup]_vars

\* -------------------------------------------------------- claims: cleanup
\* C20: cleanup_cluster_keys deletes nothing itself: a step of it leaves the
\* key and every directory where it is, makes no directory that was not
\* there, and changes at most the time to live of a directory of the job
\* that exists, to 600 seconds; whatever fails, a missing job included, the
\* call returns and raises nothing.
C20_CleanupOnlySetsTtl ==
    [][pc' # pc
       => /\ env'.cluster_dir.exists = env.cluster_dir.exists
          /\ env'.user_dir.exists = env.user_dir.exists
          /\ env'.cluster_dir # env.cluster_dir
             => env.cluster_dir.exists /\ env'.cluster_dir.ttl = CleanupTtl
          /\ env'.user_dir # env.user_dir
             => env.user_dir.exists /\ env'.user_dir.ttl = CleanupTtl
          /\ kv' = kv /\ kids' = kids
          /\ \A p \in Procs :
                /\ outcome'[p].kind # "raise"
                /\ pc'[p] = "done" => outcome'[p].kind = "return"]_vars

\* One process, outside a job, was stopped by NoJobError and returned; the
\* other set the time to live of the cluster directory and returned when
\* the store had no cluster/user directory, which is still not there.
C20_Witness ==
    /\ \E p \in Procs :
         /\ pc[p] = "done"
         /\ op[p].batchid = 0
         /\ stat[p].signal = "NoJobError"
         /\ outcome[p].kind = "return"
    /\ \E p \in Procs :
         /\ pc[p] = "done"
         /\ stat[p].writes = 1
         /\ stat[p].signal = "EtcdKeyNotFound"
         /\ outcome[p].kind = "return"
    /\ env.cluster_dir = DirOf(CleanupTtl)
    /\ env.user_dir = NoDir
    /\ ~env.expired

\* ------------------------------------------------ delete_key and delete_dir
EtcdNotFile == Err("EtcdNotFile", TRUE, 102, 0, 0)
EtcdNotDir == Err("EtcdNotDir", TRUE, 104, 0, 0)

\* def delete_key(self, key_type, key)
DeleteKeyParams == <<"self", "key_type", "key">>

\* self.delete_key(self, key_type, key) in delete_dir: the bound method puts
\* the instance before the arguments written, the instance among them.
DeleteDirFallbackArgs == <<"self", "self", "key_type", "key">>

\* _wrapped_func(*args, **kwargs) takes any arguments and hands them to the
\* function, which raises TypeError unless they fit its parameters.
CallError(params, args) == IF Len(args) = Len(params) THEN "" ELSE "TypeError"

\* What the path holds: nothing, a plain key (kv) or a directory (kids).
NodeKinds == {"none", "key", "dir"}
NodeKind == IF kv.exists THEN "key" ELSE IF env.is_dir THEN "dir" ELSE "none"

\* keyval_client.delete(key_path, recursive = False, dir = False): the
\* error it raises, NoErr when the key is removed.
DeleteFileErr ==
    IF NodeKind = "none" THEN EtcdKeyNotFound
    ELSE IF NodeKind = "dir" THEN EtcdNotFile
    ELSE NoErr

\* keyval_client.delete(key_path, recursive = True, dir = True): the store
\* removes a directory and what is under it; asked to remove a plain key as
\* a directory it answers "not a directory" or removes the key, by the
\* store at hand (env.notdir).
DeleteDirErr ==
    IF NodeKind = "none" THEN EtcdKeyNotFound
    ELSE IF NodeKind = "key" /\ env.notdir THEN EtcdNotDir
    ELSE NoErr

\* The store removes what the path holds.
CommitRemove ==
    /\ etcdIndex' = etcdIndex + 1
    /\ kv' = [exists |-> FALSE, val |-> kv.val, mod |-> 0]
    /\ kids' = {}
    /\ history' = Push(history, Event(TRUE, FALSE, kv.val))

DelFrame ==
    UNCHANGED <<now, kv0, op, tf, loc, last_cred_renew, credReq, clientPw>>

\* The first statement of both calls: key_path = self.get_key_path(...).
DelKeyPath(p) ==
    /\ pc[p] = "idle"
    /\ LET kp == GetKeyPath(op[p].key_type, op[p].key, op[p].batchuser,
                            op[p].batchid)
       IN IF kp.err # ""
          THEN /\ pc' = [pc EXCEPT ![p] = "done"]
               /\ outcome' = [outcome EXCEPT ![p] = Raise(kp.err)]
          ELSE /\ pc' = [pc EXCEPT ![p] =
                           IF op[p].name = "delete_key" THEN "dk_delete"
                           ELSE "dd_delete"]
               /\ outcome' = [outcome EXCEPT ![p].path = kp.path]
    /\ StoreUnchanged
    /\ DelFrame
    /\ UNCHANGED <<env, stat>>

\* delete_key: the request and the return; the store's error is raised (it
\* is none of the expired-credential answers).
DelKey(p) ==
    /\ pc[p] = "dk_delete"
    /\ IF DeleteFileErr = NoErr
       THEN /\ CommitRemove
            /\ outcome' = [outcome EXCEPT ![p] = ReturnNone(0)]
            /\ stat' = [stat EXCEPT ![p].writes = @ + 1]
       ELSE /\ StoreUnchanged
            /\ outcome' = [outcome EXCEPT ![p] = RaiseErr(DeleteFileErr)]
            /\ UNCHANGED stat
    /\ pc' = [pc EXCEPT ![p] = "done"]
    /\ DelFrame
    /\ UNCHANGED env

\* delete_dir: the request; EtcdNotDir leads into the except clause.
DelDir(p) ==
    /\ pc[p] = "dd_delete"
    /\ LET e == DeleteDirErr
       IN IF e = NoErr
          THEN /\ CommitRemove
               /\ env' = [env EXCEPT !.is_dir = FALSE]
               /\ pc' = [pc EXCEPT ![p] = "done"]
               /\ outcome' = [outcome EXCEPT ![p] = ReturnNone(0)]
               /\ stat' = [stat EXCEPT ![p].writes = @ + 1]
          ELSE IF e = EtcdNotDir
          THEN /\ StoreUnchanged
               /\ pc' = [pc EXCEPT ![p] = "dd_except"]
               /\ stat' = [stat EXCEPT ![p].signal = e.cls]
               /\ UNCHANGED <<env, outcome>>
          ELSE /\ StoreUnchanged
               /\ pc' = [pc EXCEPT ![p] = "done"]
               /\ outcome' = [outcome EXCEPT ![p] = RaiseErr(e)]
               /\ UNCHANGED <<env, stat>>
    /\ DelFrame

\* except etcd.EtcdNotDir: self.delete_key(self, key_type, key).  The
\* TypeError of the call is no EtcdException: the wrappers let it through.
DelDirExcept(p) ==
    /\ pc[p] = "dd_except"
    /\ LET err == CallError(DeleteKeyParams, DeleteDirFallbackArgs)
       IN IF err # ""
          THEN /\ pc' = [pc EXCEPT ![p] = "done"]
               /\ outcome' = [outcome EXCEPT ![p] = Raise(err)]
          ELSE /\ pc' = [pc EXCEPT ![p] = "dk_delete"]
               /\ UNCHANGED outcome
    /\ StoreUnchanged
    /\ DelFrame
    /\ UNCHANGED <<env, stat>>

\* Another process puts a key at the path, when nothing is there.
EnvPutKey ==
    /\ NodeKind = "none"
    /\ env.writes < MaxWrites
    /\ \E p \in Procs : pc[p] # "done"
    /\ CommitSet(1)
    /\ env' = [env EXCEPT !.writes = @ + 1]
    /\ DelFrame
    /\ UNCHANGED <<pc, outcome, stat>>

\* Each process deletes the same path, as a key or as a directory; the path
\* holds nothing, a key, or a directory with its children.
InitDel ==
    /\ now = 0
    /\ etcdIndex = 1
    /\ history = <<>>
    /\ \E kind \in NodeKinds : \E notdir \in BOOLEAN :
       \E n \in 0 .. MaxKids :
         /\ kind # "dir" => n = 0
         /\ kids = 1 .. n
         /\ kv = [exists |-> kind = "key", val |-> IF kind = "key" THEN 1 ELSE 0,
                  mod |-> IF kind = "key" THEN 1 ELSE 0]
         /\ env = [deletes |-> 0, writes |-> 0, other |-> 0, authFaults |-> 0,
                   idChanges |-> 0, is_dir |-> kind = "dir",
                   notdir |-> notdir]
    /\ kv0 = kv
    /\ op \in [Procs -> {[Op0 EXCEPT !.name = name, !.batchid = b] :
                           name \in {"delete_key", "delete_dir"},
                           b \in {0, Op0.batchid}}]
    /\ pc = [p \in Procs |-> "idle"]
    /\ tf = [p \in Procs |-> "Incr"]
    /\ loc = [p \in Procs |-> WatchLoc0]
    /\ outcome = [p \in Procs |-> Pending]
    /\ last_cred_renew = [p \in Procs |-> 0]
    /\ credReq = [p \in Procs |-> 1]
    /\ clientPw = [p \in Procs |-> 1]
    /\ stat = [p \in Procs |-> Stat0]

NextDel ==
    \/ \E p \in Procs : DelKeyPath(p)
    \/ \E p \in Procs : DelKey(p)
    \/ \E p \in Procs : DelDir(p)
    \/ \E p \in Procs : DelDirExcept(p)
    \/ EnvPutKey

SpecDel == InitDel /\ [][NextDel]_vars

\* ---------------------------------------------------------- claims: delete
\* C21: delete_dir also succeeds for keys: a delete_dir whose request found
\* a plain key at the path returns without error, the key removed.
C21_DeleteDirRemovesKey ==
    [][\A p \in Procs :
          /\ op[p].name = "delete_dir"
          /\ pc[p] # "done" /\ pc'[p] = "done"
          /\ \/ pc[p] = "dd_delete" /\ NodeKind = "key"
             \/ stat[p].signal = EtcdNotDir.cls
          => outcome'[p].kind = "return" /\ ~kv'.exists]_vars

\* ------------------------------------------- __init__: the job identity
\* What squeue -n batchname -u user -h -o %i answered: it failed
\* (CalledProcessError), or printed the ids of the matching jobs, one a line.
SqueueFailed == [failed |-> TRUE, ids |-> <<>>]
SqueueIds(ids) == [failed |-> FALSE, ids |-> ids]
SqueueOutputs ==
    {SqueueFailed, SqueueIds(<<>>), SqueueIds(<<5>>), SqueueIds(<<5, 6>>)}

\* find_job_by_name: the id of the one job of that name, InvalidJobError
\* when squeue failed, printed nothing, or printed what int() does not take
\* (several lines).
FindJobByName(out) ==
    IF out.failed \/ out.ids = <<>>
    THEN [err |-> "InvalidJobError", batchid |-> 0]
    ELSE IF Len(out.ids) = 1 THEN [err |-> "", batchid |-> out.ids[1]]
    ELSE [err |-> "InvalidJobError", batchid |-> 0]

\* The arguments of the constructor that matter here ("" and 0: not given),
\* and the sources looked at so far.
IdLoc0 ==
    [batchid |-> 0, batchname |-> "", default_batchname |-> "",
     batchuser |-> "", proc_type |-> USER, consulted |-> {}]

IdFrame ==
    UNCHANGED <<now, etcdIndex, kv, kv0, kids, history, env, tf,
                last_cred_renew, credReq, clientPw, stat>>

\* self.batchuser: the user named, for a USER process; else the owner of the
\* job (SLURM_JOB_UID) or the user running the process.
FindUser(p) ==
    /\ pc[p] = "user"
    /\ op' = [op EXCEPT ![p].batchuser =
                IF loc[p].batchuser # "" /\ loc[p].proc_type = USER
                THEN loc[p].batchuser
                ELSE IF env.job_uid # "" THEN env.job_uid ELSE env.uid,
                        ![p].batchid = 0]
    /\ pc' = [pc EXCEPT ![p] = "id"]
    /\ UNCHANGED <<loc, outcome>>
    /\ IdFrame

IdDone(p, batchid, source) ==
    /\ op' = [op EXCEPT ![p].batchid = batchid]
    /\ pc' = [pc EXCEPT ![p] = "done"]
    /\ outcome' = [outcome EXCEPT ![p] = Return(batchid)]
    /\ loc' = [loc EXCEPT ![p].consulted = @ \cup source]

\* if batchid: self.batchid = batchid
IdGiven(p) ==
    /\ pc[p] = "id"
    /\ loc[p].batchid # 0
    /\ IdDone(p, loc[p].batchid, {"batchid"})
    /\ IdFrame

\* elif batchname: self.batchid = self.find_job_by_name(...); its
\* InvalidJobError leaves the constructor.
IdByName(p) ==
    /\ pc[p] = "id"
    /\ loc[p].batchid = 0
    /\ loc[p].batchname # ""
    /\ LET r == FindJobByName(env.squeue[loc[p].batchname])
       IN IF r.err # ""
          THEN /\ pc' = [pc EXCEPT ![p] = "done"]
               /\ outcome' = [outcome EXCEPT ![p] = Raise(r.err)]
               /\ loc' = [loc EXCEPT ![p].consulted = @ \cup {"batchname"}]
               /\ UNCHANGED op
          ELSE IdDone(p, r.batchid, {"batchname"})
    /\ IdFrame

\* elif not batchuser: int(os.environ['SLURM_JOB_ID']), and on KeyError the
\* default name.
IdFromEnviron(p) ==
    /\ pc[p] = "id"
    /\ loc[p].batchid = 0
    /\ loc[p].batchname = ""
    /\ loc[p].batchuser = ""
    /\ IF env.job_id # 0
       THEN IdDone(p, env.job_id, {"SLURM_JOB_ID"})
       ELSE /\ pc' = [pc EXCEPT ![p] = "default"]
            /\ loc' = [loc EXCEPT ![p].consulted = @ \cup {"SLURM_JOB_ID"}]
            /\ UNCHANGED <<op, outcome>>
    /\ IdFrame

\* if default_batchname: find_job_by_name, whose InvalidJobError is passed
\* over.
IdByDefaultName(p) ==
    /\ pc[p] = "default"
    /\ IF loc[p].default_batchname = ""
       THEN IdDone(p, 0, {})
       ELSE LET r == FindJobByName(env.squeue[loc[p].default_batchname])
            IN IdDone(p, r.batchid, {"default_batchname"})
    /\ IdFrame

\* No id, no name, and a user named: no branch is taken, self.batchid is 0.
IdNone(p) ==
    /\ pc[p] = "id"
    /\ loc[p].batchid = 0
    /\ loc[p].batchname = ""
    /\ loc[p].batchuser # ""
    /\ IdDone(p, 0, {})
    /\ IdFrame

IdProc == 1

\* One process is constructed, with any of its arguments given or not, in
\* a job's environment or outside, squeue answering either name as it may.
InitId ==
    /\ now = 0
    /\ etcdIndex = 1
    /\ history = <<>>
    /\ kids = {}
    /\ kv = [exists |-> FALSE, val |-> 0, mod |-> 0]
    /\ kv0 = kv
    /\ \E job_id \in {0, Op0.batchid} : \E job_uid \in {"", "bob"} :
       \E byname \in SqueueOutputs : \E bydefault \in SqueueOutputs :
         env = [deletes |-> 0, writes |-> 0, other |-> 0, authFaults |-> 0,
                idChanges |-> 0, job_id |-> job_id, job_uid |-> job_uid,
                uid |-> "bob",
                squeue |-> [n \in {"vc", "pcocc"} |->
                              IF n = "vc" THEN byname ELSE bydefault]]
    /\ op = [p \in Procs |-> [Op0 EXCEPT !.name = "__init__", !.batchid = 0]]
    /\ pc = [p \in Procs |-> IF p = IdProc THEN "user" ELSE "idle"]
    /\ tf = [p \in Procs |-> "Incr"]
    /\ \E batchid \in {0, 9} : \E batchname \in {"", "vc"} :
       \E default_batchname \in {"", "pcocc"} : \E batchuser \in {"", "eve"} :
       \E proc_type \in {USER, LAUNCHER} :
         loc = [p \in Procs |->
                  [IdLoc0 EXCEPT !.batchid = batchid,
                                 !.batchname = batchname,
                                 !.default_batchname = default_batchname,
                                 !.batchuser = batchuser,
                                 !.proc_type = proc_type]]
    /\ outcome = [p \in Procs |-> Pending]
    /\ last_cred_renew = [p \in Procs |-> 0]
    /\ credReq = [p \in Procs |-> 1]
    /\ clientPw = [p \in Procs |-> 1]
    /\ stat = [p \in Procs |-> Stat0]

NextId ==
    \/ FindUser(IdProc)
    \/ IdGiven(IdProc)
    \/ IdByName(IdProc)
    \/ IdFromEnviron(IdProc)
    \/ IdByDefaultName(IdProc)
    \/ IdNone(IdProc)

SpecId == InitId /\ [][NextId]_vars

\* ------------------------------------------------------ claims: job identity
\* What each source yields: 0 when it is absent or finds no job.
YieldOfName(name) ==
    IF name = "" THEN 0 ELSE FindJobByName(env.squeue[name]).batchid

\* C22: the job id comes from the first source present among the explicit
\* id, the lookup by explicit name, the id of the environment and the
\* lookup by default name; a source is looked at only when every source
\* before it is absent; and batchid is 0 only when no source yields a job.
C22_JobIdPriority ==
    \A p \in Procs :
       LET a == loc[p]
       IN /\ "batchname" \in a.consulted => a.batchid = 0
          /\ "SLURM_JOB_ID" \in a.consulted
             => a.batchid = 0 /\ a.batchname = ""
          /\ "default_batchname" \in a.consulted
             => a.batchid = 0 /\ a.batchname = "" /\ env.job_id = 0
          /\ pc[p] = "done" /\ outcome[p].kind = "return"
             => /\ a.batchid # 0 => op[p].batchid = a.batchid
                /\ op[p].batchid = 0
                   => /\ a.batchid = 0
                      /\ YieldOfName(a.batchname) = 0
                      /\ env.job_id = 0
                      /\ YieldOfName(a.default_batchname) = 0

\* ---------------------------------------- atom_update_key, callers scheduled
\* Callers of atom_update_key race on one key whose credentials hold; a
\* process outside the callers may delete the key.
InitRace ==
    /\ now = 0
    /\ \E found \in BOOLEAN : \E v \in 0..MaxInit :
         /\ kv = [exists |-> found, val |-> IF found THEN v ELSE 0,
                  mod |-> IF found THEN 1 ELSE 0]
         /\ kv0 = kv
    /\ etcdIndex = 1
    /\ kids = {}
    /\ history = <<>>
    /\ env = Env0
    /\ op = [p \in Procs |-> [Op0 EXCEPT !.name = "atom_update_key"]]
    /\ pc = [p \in Procs |-> "au_read"]
    /\ tf \in [Procs -> {"Incr", "Probe"}]
    /\ loc = [p \in Procs |-> AtomLoc0]
    /\ outcome = [p \in Procs |-> Pending]
    /\ last_cred_renew = [p \in Procs |-> 0]
    /\ credReq = [p \in Procs |-> 1]
    /\ clientPw = [p \in Procs |-> 1]
    /\ stat = [p \in Procs |-> Stat0]

NextRace ==
    \/ \E p \in Procs : AtomRead(p)
    \/ \E p \in Procs : AtomWrite(p)
    \/ EnvDelete

\* Every caller that can take its next step takes it in the end: each is a
\* running process of its own.
SpecRace ==
    /\ InitRace /\ [][NextRace]_vars
    /\ \A p \in Procs : WF_vars(AtomRead(p)) /\ WF_vars(AtomWrite(p))

\* -------------------------------------------------------- claims: lock-free
\* The last mutation of the key the store committed came after the read of
\* p and made the key other than p read it.
MutatedSinceRead(p) ==
    /\ history # <<>>
    /\ history[Len(history)].onPath
    /\ history[Len(history)].idx > loc[p].index
    /\ \/ loc[p].found /\ ~kv.exists
       \/ kv.exists /\ kv.mod = history[Len(history)].idx

FinishedOthers(p) == {q \in Procs \ {p} : Finished(q)}

\* C23: the retry loop of atom_update_key is lock-free.  A conditional write
\* fails with a race signal only when a mutation of the key by another
\* process was committed after the caller's read; with no writer besides the
\* callers each retry of a caller is matched by another caller that
\* completed; and a caller whose fellows have all finished finishes too.
C23_LockFree ==
    /\ [][\A p \in Procs :
             stat'[p].retries > stat[p].retries => MutatedSinceRead(p)]_vars
    /\ [](env.deletes = 0 =>
            \A p \in Procs :
               stat[p].retries <= Cardinality(FinishedOthers(p)))
    /\ \A p \in Procs : (FinishedOthers(p) = Procs \ {p}) ~> Finished(p)

\* A caller read the key absent, lost the race to create it, read it again
\* and completed after every other caller, with no writer besides them.
C23_Witness ==
    /\ env.deletes = 0
    /\ ~kv0.exists
    /\ AllFinished
    /\ \E p \in Procs :
         /\ stat[p].retries = NProcs - 1
         /\ loc[p].found
         /\ outcome[p].kind = "return"
         /\ kv.mod = loc[p].index + 1

\* ------------------------------------------------- claims: returned result
\* C24: the result atom_update_key returns with a committed write is the
\* one the transform gives for the value, or the absence, that this write
\* replaced, and the value written is the transform's new value for it: a
\* result of an earlier, raced attempt is not returned.
C24_ResultOfCommittedAttempt ==
    [][\A p \in Procs :
          /\ pc[p] = "au_write" /\ pc'[p] = "done"
          /\ outcome'[p].kind = "return"
          => LET t == Transform(tf[p], kv.exists, kv.val)
             IN /\ outcome'[p].ret = t.ret
                /\ kv' = [exists |-> TRUE, val |-> t.new_value,
                          mod |-> etcdIndex + 1]
                /\ etcdIndex' = etcdIndex + 1]_vars

\* A caller lost a race, ran the transform again on the value the winner
\* wrote, and returned that result, not the one of its first attempt.
C24_Witness ==
    \E p \in Procs :
        /\ tf[p] = "Incr"
        /\ Finished(p) /\ outcome[p].kind = "return"
        /\ stat[p].retries > 0
        /\ loc[p].found
        /\ outcome[p].ret = loc[p].value + 1
        /\ outcome[p].ret # Transform(tf[p], kv0.exists, kv0.val).ret
        /\ kv.exists /\ kv.val = outcome[p].ret

\* --------------------------------------------------- claims: cached secret
\* C25: the secret a user's process holds in memory, when it holds one, is
\* the text of the user's secret file, also after processes of the user
\* raced to make the file and after a failed attempt to write it; so
\* _get_credential returns no secret other than the stored one.
C25_CachedSecretIsStored ==
    \A p \in Users :
       /\ ~loc[p].etcd_password.none
          => /\ env.pwd_file.state = "present"
             /\ loc[p].etcd_password = ReadStrip(env.pwd_file)
       /\ (pc[p] = "done" /\ outcome[p].kind = "return")
          => outcome[p].ret = ReadStrip(env.pwd_file)

\* ----------------------------------------------------- claims: child count
\* C26: wait_child_count returns only what it read with exactly count
\* children: the listing returned has count nodes below the directory, or
\* the call returns None, for count 0 and a directory that is not there.
C26_ReturnsExactlyCount ==
    (op[RdProc].name = "wait_child_count" /\ pc[RdProc] = "done"
       /\ outcome[RdProc].kind = "return")
    => \/ outcome[RdProc].none /\ op[RdProc].count = 0
       \/ ~outcome[RdProc].none /\ outcome[RdProc].ret = op[RdProc].count

\* ------------------------------------------------------------ keyval_client
\* self._keyval_client and self._last_cred_renew of an instance: whether
\* each attribute is there, and the time stamped.
NoClient == [client |-> FALSE, stamped |-> FALSE, last |-> 0]

\* A property that makes the client and leaves the time unstamped.
KeyvalClientNoStamp(c, t) ==
    IF c.client THEN c ELSE [client |-> TRUE, stamped |-> c.stamped, last |-> c.last]

\* The keyval_client property at time t: the client the instance has, or a
\* new one, made with a credential, and _last_cred_renew set to now.
KeyvalClient(c, t) ==
    IF c.client THEN c ELSE [client |-> TRUE, stamped |-> TRUE, last |-> t]

ConnLoc0 == [e |-> NoErr, conn |-> NoClient, created |-> 0, calls |-> 0]

ConnProc == 1

\* What may end the making of the client: _get_credential raises
\* KeyCredentialError, or etcd.Client finds no server, an EtcdException whose
\* payload is no dict.
ConnectErrors == {"KeyCredentialError", "EtcdConnectionFailed"}

\* The wrapped function starts and evaluates self.keyval_client.
ConnClient(p) ==
    /\ pc[p] = "w_call"
    /\ \/ /\ loc' = [loc EXCEPT ![p].conn = KeyvalClient(@, now),
                                ![p].created =
                                    IF loc[p].conn.client THEN @ ELSE now]
          /\ last_cred_renew' =
                [last_cred_renew EXCEPT ![p] = KeyvalClient(loc[p].conn, now).last]
          /\ credReq' = [credReq EXCEPT ![p] =
                            IF loc[p].conn.client THEN @ ELSE @ + 1]
          /\ clientPw' = [clientPw EXCEPT ![p] = credReq'[p]]
          /\ pc' = [pc EXCEPT ![p] = "w_request"]
          /\ UNCHANGED <<outcome, stat>>
       \/ /\ ~loc[p].conn.client
          /\ \E cls \in ConnectErrors :
               outcome' = [outcome EXCEPT ![p] =
                  IF cls = "KeyCredentialError" THEN Raise(cls)
                  ELSE RaiseErr(Err(cls, FALSE, 0, 0, 0))]
          /\ pc' = [pc EXCEPT ![p] = "done"]
          /\ stat' = [stat EXCEPT ![p].tries = @ + 1]
          /\ UNCHANGED <<loc, last_cred_renew, credReq, clientPw>>
    /\ StoreUnchanged
    /\ UNCHANGED <<now, kv0, env, op, tf>>

\* The request is answered and the wrapped function returns.
ConnReturn(p) ==
    /\ pc[p] = "w_request"
    /\ pc' = [pc EXCEPT ![p] = "done"]
    /\ outcome' = [outcome EXCEPT ![p] = Return(0)]
    /\ loc' = [loc EXCEPT ![p].e = NoErr]
    /\ stat' = [stat EXCEPT ![p].tries = @ + 1]
    /\ StoreUnchanged
    /\ UNCHANGED <<now, kv0, env, op, tf, last_cred_renew, credReq, clientPw>>

\* The request raises the store's exception e and the wrapper calls
\* _try_renew_credential(e), which reads self._last_cred_renew when e says
\* the credential has expired: AttributeError if it was never set.
ConnFail(p) ==
    /\ pc[p] = "w_request"
    /\ \E e \in StoreErrors :
         /\ loc' = [loc EXCEPT ![p].e = e,
                               ![p].conn.last =
                                   IF TryRenew(e, now, last_cred_renew[p]) = "renew"
                                      /\ loc[p].conn.stamped
                                   THEN now ELSE @]
         /\ IF IsAuthExpired(e) /\ ~loc[p].conn.stamped
            THEN /\ pc' = [pc EXCEPT ![p] = "done"]
                 /\ outcome' = [outcome EXCEPT ![p] = Raise("AttributeError")]
                 /\ stat' = [stat EXCEPT ![p].tries = @ + 1]
                 /\ UNCHANGED <<last_cred_renew, credReq, clientPw>>
            ELSE WrapperHandles(p, e)
    /\ StoreUnchanged
    /\ UNCHANGED <<now, kv0, env, op, tf>>

\* The caller makes its next call on the same instance.
ConnAgain(p) ==
    /\ pc[p] = "done"
    /\ loc[p].calls < MaxCalls
    /\ pc' = [pc EXCEPT ![p] = "w_call"]
    /\ outcome' = [outcome EXCEPT ![p] = Pending]
    /\ loc' = [loc EXCEPT ![p].e = NoErr, ![p].calls = @ + 1]
    /\ StoreUnchanged
    /\ UNCHANGED <<now, kv0, env, op, tf, last_cred_renew, credReq, clientPw,
                   stat>>

\* One process, constructed with no client yet, makes wrapped calls as time
\* passes.
InitConn ==
    /\ now = 0
    /\ etcdIndex = 1
    /\ kv = [exists |-> FALSE, val |-> 0, mod |-> 0]
    /\ kv0 = kv
    /\ kids = {}
    /\ history = <<>>
    /\ env = Env0
    /\ op = [p \in Procs |-> IF p = ConnProc
                              THEN [Op0 EXCEPT !.name = "wrapped_call"]
                              ELSE Op0]
    /\ pc = [p \in Procs |-> "done"]
    /\ tf = [p \in Procs |-> "Incr"]
    /\ loc = [p \in Procs |-> ConnLoc0]
    /\ outcome = [p \in Procs |-> Pending]
    /\ last_cred_renew = [p \in Procs |-> 0]
    /\ credReq = [p \in Procs |-> 0]
    /\ clientPw = [p \in Procs |-> 0]
    /\ stat = [p \in Procs |-> Stat0]

NextConn ==
    \/ ConnClient(ConnProc)
    \/ ConnReturn(ConnProc)
    \/ ConnFail(ConnProc)
    \/ ConnAgain(ConnProc)
    \/ Tick

SpecConn == InitConn /\ [][NextConn]_vars

\* ------------------------------------------------------- claims: connection
\* The request of p has just raised an authentication-expired answer.
AuthFailed(p) ==
    /\ pc[p] = "w_request"
    /\ stat'[p].tries = stat[p].tries + 1
    /\ IsAuthExpired(loc'[p].e)

\* C27: making the connection starts the renewal cooldown.  An
\* authentication-expired answer to a store call within 15 seconds of the
\* first creation of the client ends in KeyCredentialError with no renewal;
\* and the renewal timestamp is set before any store call can fail: no call
\* finds it missing.
C27_CreationStartsCooldown ==
    /\ [][\A p \in Procs :
             (AuthFailed(p) /\ now - loc[p].created <= CredCooldown)
             => /\ pc'[p] = "done"
                /\ outcome'[p] = Raise("KeyCredentialError")
                /\ credReq'[p] = credReq[p]
                /\ clientPw'[p] = clientPw[p]
                /\ last_cred_renew'[p] = last_cred_renew[p]
                /\ stat'[p].renewals = 0]_vars
    /\ [](\A p \in Procs :
             /\ outcome[p].cls # "AttributeError"
             /\ pc[p] = "w_request"
                => /\ loc[p].conn.stamped
                   /\ last_cred_renew[p] >= loc[p].created)

\* The client was made some time after the start, and a call 15 seconds
\* later, the first to be refused, ended in KeyCredentialError with no
\* renewal.
C27_Witness ==
    \E p \in Procs :
       /\ loc[p].created > 0
       /\ now - loc[p].created = CredCooldown
       /\ pc[p] = "done"
       /\ outcome[p] = Raise("KeyCredentialError")
       /\ IsAuthExpired(loc[p].e)
       /\ stat[p].renewals = 0
       /\ credReq[p] = 1

====
